---- MODULE Spec2Model ----
(***************************************************************************)
(* A model of the SpacetimeDB MCP client (src/src/client.ts): the type     *)
(* resolver, the schema formatter, the log decoder and the eleven remote   *)
(* operations of SpacetimeClient with their result-relay contract.         *)
(*                                                                         *)
(* Representation of JavaScript values.                                    *)
(*  - An object used as a tagged union (AlgebraicType) is the sequence of  *)
(*    its own entries in Object.entries order; every entry is a record     *)
(*    [key, inner, ref, elements] of which only the field its key uses is  *)
(*    meaningful (inner for Array/Option, ref for Ref, elements for        *)
(*    Product/Sum).                                                        *)
(*  - RustOption<string> is [has, some]: has = FALSE is `some` absent.     *)
(*  - A string built by a template literal is kept as the sequence of its  *)
(*    parts, so that "the message embeds X" is "X is one of the parts";    *)
(*    a multi-line text is the sequence of its lines.  Type names are      *)
(*    ordinary strings.                                                    *)
(*  - A call that can throw evaluates to a completion record               *)
(*    [ok, val, err]: ok = FALSE is a thrown Error with message err.       *)
(***************************************************************************)
EXTENDS Integers, Sequences, FiniteSets, TLC

VARIABLES
    rSchema,    \* resolveType: the schema argument
    rType,      \* resolveType: the algebraicType argument
    rOut,       \* resolveType: the completion of the call
    rPc,        \* resolveType: "input" before the call, "done" after
    fSchema,    \* formatSchema: the schema argument
    fOut,       \* formatSchema: the completion of the call
    fPc,        \* formatSchema: "input" before the call, "done" after
    pc,         \* client call: "idle", "awaiting" (request in flight), "done"
    op,         \* client call: the method invoked
    database,   \* client call: its database / identity argument
    transport,  \* client call: what axios delivered (a response or a fault)
    result,     \* client call: the completion of the async method
    config,     \* server: host, token and default database it was created with
    slots       \* server: the invocations of its handlers, one per slot

vars == <<rSchema, rType, rOut, rPc, fSchema, fOut, fPc,
          pc, op, database, transport, result, config, slots>>

rVars == <<rSchema, rType, rOut, rPc>>
fVars == <<fSchema, fOut, fPc>>
cVars == <<pc, op, database, transport, result>>
sVars == <<config, slots>>

----------------------------------------------------------------------------
(* Bounds of the model.                                                    *)

MaxDepth == 2       \* nesting depth of Array/Option wrappers that are drawn
MaxTables == 2      \* tables in a drawn schema
MaxReducers == 2    \* reducers in a drawn schema
MaxLogLines == 2    \* lines / entries in a drawn log payload
MaxInFlight == 2    \* invocations of the handlers in flight at once

----------------------------------------------------------------------------
(* Completions.                                                            *)

Return(v) == [ok |-> TRUE, val |-> v, err |-> ""]

Throw(m, dflt) == [ok |-> FALSE, val |-> dflt, err |-> m]

\* A thrown value that is not an Error instance carries this mark instead of
\* a message.
NonError == "<not an Error>"

ThrowNonError(dflt) == Throw(NonError, dflt)

\* TypeError raised by reading property `prop` of undefined (V8's wording).
TypeErrorMessage(prop) ==
    "Cannot read properties of undefined (reading '" \o prop \o "')"

----------------------------------------------------------------------------
(* Values of the wire format (types.ts).                                   *)

Tag(k) == [key |-> k, inner |-> <<>>, ref |-> 0, elements |-> <<>>]

Prim(k) == <<Tag(k)>>

ArrayOf(t) == <<[Tag("Array") EXCEPT !.inner = t]>>

OptionOf(t) == <<[Tag("Option") EXCEPT !.inner = t]>>

RefTo(i) == <<[Tag("Ref") EXCEPT !.ref = i]>>

ProductOf(elems) == <<[Tag("Product") EXCEPT !.elements = elems]>>

SumOf(variants) == <<[Tag("Sum") EXCEPT !.elements = variants]>>

Some(s) == [has |-> TRUE, some |-> s]

None == [has |-> FALSE, some |-> ""]

Element(n, t) == [name |-> n, algebraic_type |-> t]

TypeDef(hasName, n, ty) == [hasName |-> hasName, name |-> n, ty |-> ty]

\* A typespace body: kind "Product" or "Sum" is the key it carries, "Empty"
\* is an object with neither.
Body(kind, elems) == [kind |-> kind, elements |-> elems]

Table(n, ref) == [name |-> n, product_type_ref |-> ref]

\* lifecycle is RustOption<{Init|OnConnect|OnDisconnect}>: hasSome is `some`
\* present, keys the keys of that object in order.
Reducer(n, hasSome, keys, params) ==
    [name |-> n, lifecycle |-> [hasSome |-> hasSome, keys |-> keys],
     params |-> [elements |-> params]]

\* The response body read as a RawSchema.  nullish: the body is null or
\* undefined; has<Field>: the field is present (and truthy).
Schema(hasTables, tables, hasReducers, reducers, hasTypespace, typespace, hasTypes, types) ==
    [nullish |-> FALSE,
     hasTables |-> hasTables, tables |-> tables,
     hasReducers |-> hasReducers, reducers |-> reducers,
     hasTypespace |-> hasTypespace, typespace |-> [types |-> typespace],
     hasTypes |-> hasTypes, types |-> types]

NullSchema == [Schema(FALSE, <<>>, FALSE, <<>>, FALSE, <<>>, FALSE, <<>>) EXCEPT !.nullish = TRUE]

----------------------------------------------------------------------------
(* The type resolver.                                                      *)

primitives ==
    {"I8", "U8", "I16", "U16", "I32", "U32", "F32",
     "I64", "U64", "F64", "I128", "U128", "U256", "Bool", "String"}

\* const [typeKey, typeValue] = entries[0] with the last entry taken instead.
firstEntry_Last(algebraicType) == algebraicType[Len(algebraicType)]

\* const [typeKey, typeValue] = entries[0]
firstEntry(algebraicType) == algebraicType[1]

\* schema.types[refIndex]: a JavaScript array read, undefined out of range.
HasTypeDef(schema, refIndex) ==
    refIndex >= 0 /\ refIndex < Len(schema.types)

TypeDefAt(schema, refIndex) == schema.types[refIndex + 1]

\* The Ref case with the index clamped into the table instead of degrading
\* to the label.
resolveRef_Clamped(schema, refIndex) ==
    IF ~schema.hasTypes
    THEN Throw(TypeErrorMessage(ToString(refIndex)), "")
    ELSE IF Len(schema.types) > 0 /\ ~HasTypeDef(schema, refIndex)
    THEN Return(TypeDefAt(schema, 0).name)
    ELSE IF HasTypeDef(schema, refIndex) /\ TypeDefAt(schema, refIndex).hasName
    THEN Return(TypeDefAt(schema, refIndex).name)
    ELSE Return("Ref(" \o ToString(refIndex) \o ")")

\* The Ref case following the reference into the body the entry names: a
\* body that holds a Ref again is followed in turn, which on a cyclic table
\* never bottoms out (RangeError: Maximum call stack size exceeded).
resolveRef_Followed(schema, refIndex) ==
    IF ~schema.hasTypes
    THEN Throw(TypeErrorMessage(ToString(refIndex)), "")
    ELSE IF /\ HasTypeDef(schema, refIndex)
            /\ TypeDefAt(schema, refIndex).ty < Len(schema.typespace.types)
            /\ \E e \in DOMAIN schema.typespace.types[TypeDefAt(schema, refIndex).ty + 1].elements :
                   schema.typespace.types[TypeDefAt(schema, refIndex).ty + 1]
                       .elements[e].algebraic_type[1].key = "Ref"
    THEN Throw("Maximum call stack size exceeded", "")
    ELSE IF HasTypeDef(schema, refIndex) /\ TypeDefAt(schema, refIndex).hasName
    THEN Return(TypeDefAt(schema, refIndex).name)
    ELSE Return("Ref(" \o ToString(refIndex) \o ")")

\* The Ref case: refTypeDef?.name?.name ?? `Ref(${refIndex})`.  Reading an
\* index of schema.types throws when the schema has no `types`.
resolveRef(schema, refIndex) ==
    IF ~schema.hasTypes
    THEN Throw(TypeErrorMessage(ToString(refIndex)), "")
    ELSE IF HasTypeDef(schema, refIndex) /\ TypeDefAt(schema, refIndex).hasName
    THEN Return(TypeDefAt(schema, refIndex).name)
    ELSE Return("Ref(" \o ToString(refIndex) \o ")")

\* The Product case taking any product that starts with the sentinel field.
resolveProduct_AnyLength(product) ==
    IF /\ Len(product.elements) >= 1
       /\ product.elements[1].name.has
       /\ product.elements[1].name.some = "__identity__"
    THEN Return("Identity")
    ELSE Return("Product")

\* The Product case.
resolveProduct(product) ==
    IF /\ Len(product.elements) = 1
       /\ product.elements[1].name.has
       /\ product.elements[1].name.some = "__identity__"
    THEN Return("Identity")
    ELSE Return("Product")

\* `Option<${innerType}>` closed with the wrong bracket.
wrapOption_Unclosed(innerType) == "Option<" \o innerType

\* `Array<${innerType}>` and `Option<${innerType}>`
wrapArray(innerType) == "Array<" \o innerType \o ">"

wrapOption(innerType) == "Option<" \o innerType \o ">"

RECURSIVE resolveType(_, _)
resolveType(schema, algebraicType) ==
    IF Len(algebraicType) = 0 THEN Return("Unknown")
    ELSE
    LET typeKey == firstEntry(algebraicType).key
        typeValue == firstEntry(algebraicType)
    IN  IF typeKey \in primitives THEN Return(typeKey)
        ELSE IF typeKey = "Array" THEN
            LET innerType == resolveType(schema, typeValue.inner)
            IN  IF innerType.ok
                THEN Return(wrapArray(innerType.val))
                ELSE innerType
        ELSE IF typeKey = "Ref" THEN resolveRef(schema, typeValue.ref)
        ELSE IF typeKey = "Product" THEN resolveProduct(typeValue)
        ELSE IF typeKey = "Sum" THEN Return("Enum")
        ELSE IF typeKey = "Option" THEN
            LET innerType == resolveType(schema, typeValue.inner)
            IN  IF innerType.ok
                THEN Return(wrapOption(innerType.val))
                ELSE innerType
        ELSE Return(typeKey)

----------------------------------------------------------------------------
(* The schema formatter.                                                   *)

\* U+2022 and a space, the bullet that opens a table or reducer line.
Bullet == "* "

RECURSIVE Repeat(_, _)
Repeat(str, n) == IF n = 0 THEN "" ELSE str \o Repeat(str, n - 1)

\* fullType.split("<")[0]: type names hold no "<", so the head is the
\* wrapper's own name for Array/Option and the whole name otherwise.
splitHead(algebraicType, fullType) ==
    IF Len(algebraicType) >= 1 /\ firstEntry(algebraicType).key \in {"Array", "Option"}
    THEN firstEntry(algebraicType).key
    ELSE fullType

NoParam == [name |-> "", type |-> "", fullType |-> ""]

\* element.name.some ?? "(unnamed)" with the placeholder left out.
paramName_Blank(element) ==
    IF element.name.has THEN element.name.some ELSE ""

\* element.name.some ?? "(unnamed)"
paramName(element) ==
    IF element.name.has THEN element.name.some ELSE "(unnamed)"

parseAlgebraicType(schema, element) ==
    LET name == paramName(element)
        fullType == resolveType(schema, element.algebraic_type)
    IN  IF ~fullType.ok THEN Throw(fullType.err, NoParam)
        ELSE Return([name |-> name,
                     type |-> splitHead(element.algebraic_type, fullType.val),
                     fullType |-> fullType.val])

\* elements.map((elem) => this.parseAlgebraicType(schema, elem)), from
\* element i on, params being the results so far.
RECURSIVE mapElements(_, _, _, _)
mapElements(schema, elements, i, params) ==
    IF i > Len(elements) THEN Return(params)
    ELSE LET parsed == parseAlgebraicType(schema, elements[i])
         IN  IF ~parsed.ok THEN Throw(parsed.err, <<>>)
             ELSE mapElements(schema, elements, i + 1, Append(params, parsed.val))

\* schema.typespace.types[ty]: undefined out of range.
HasTypeData(schema, ty) ==
    ty >= 0 /\ ty < Len(schema.typespace.types)

TypeDataAt(schema, ty) == schema.typespace.types[ty + 1]

\* !typeData?.Product with the body's kind left unread: any body that
\* exists counts as a Product.
hasProduct_AnyKind(schema, ty) == HasTypeData(schema, ty)

\* typeData?.Product is truthy: the typespace has a body at index ty and
\* that body carries a Product.
hasProduct(schema, ty) ==
    HasTypeData(schema, ty) /\ TypeDataAt(schema, ty).kind = "Product"

\* The loop of parseTables from table i on, tables being the results so far.
\* schema.types[...] throws when the schema has no `types`.
RECURSIVE parseTablesFrom(_, _, _)
parseTablesFrom(schema, i, tables) ==
    IF i > Len(schema.tables) THEN Return(tables)
    ELSE LET table == schema.tables[i]
         IN  IF ~schema.hasTypes
             THEN Throw(TypeErrorMessage(ToString(table.product_type_ref)), <<>>)
             ELSE IF ~HasTypeDef(schema, table.product_type_ref)
             THEN parseTablesFrom(schema, i + 1, tables)
             ELSE LET typeDef == TypeDefAt(schema, table.product_type_ref)
                  IN  IF ~hasProduct(schema, typeDef.ty)
                      THEN parseTablesFrom(schema, i + 1, tables)
                      ELSE LET columns == mapElements(schema,
                                              TypeDataAt(schema, typeDef.ty).elements, 1, <<>>)
                           IN  IF ~columns.ok THEN columns
                               ELSE parseTablesFrom(schema, i + 1,
                                        Append(tables, [name |-> table.name,
                                                        columns |-> columns.val]))

parseTables(schema) == parseTablesFrom(schema, 1, <<>>)

\* The lifecycle taken from the last key instead of the first.
parseLifecycle_LastKey(reducer) ==
    IF reducer.lifecycle.hasSome /\ Len(reducer.lifecycle.keys) > 0
    THEN reducer.lifecycle.keys[Len(reducer.lifecycle.keys)]
    ELSE ""

\* The lifecycle of a parsed reducer: keys[0] of lifecycle.some, and null
\* (here "", as falsy as null in the renderer's test) without one.
parseLifecycle(reducer) ==
    IF reducer.lifecycle.hasSome /\ Len(reducer.lifecycle.keys) > 0
    THEN reducer.lifecycle.keys[1]
    ELSE ""

\* schema.reducers.map(...), from reducer i on.
RECURSIVE parseReducersFrom(_, _, _)
parseReducersFrom(schema, i, reducers) ==
    IF i > Len(schema.reducers) THEN Return(reducers)
    ELSE LET reducer == schema.reducers[i]
             params == mapElements(schema, reducer.params.elements, 1, <<>>)
         IN  IF ~params.ok THEN params
             ELSE parseReducersFrom(schema, i + 1,
                      Append(reducers, [name |-> reducer.name,
                                        params |-> params.val,
                                        lifecycle |-> parseLifecycle(reducer)]))

parseReducers(schema) == parseReducersFrom(schema, 1, <<>>)

\* The lines `    ${name}: ${fullType}` of a column or parameter list.
RECURSIVE renderParams(_, _)
renderParams(params, i) ==
    IF i > Len(params) THEN <<>>
    ELSE << <<"    ", params[i].name, ": ", params[i].fullType>> >>
            \o renderParams(params, i + 1)

RECURSIVE renderTables(_, _)
renderTables(tables, i) ==
    IF i > Len(tables) THEN <<>>
    ELSE << <<>>, <<Bullet, tables[i].name>> >>
            \o renderParams(tables[i].columns, 1)
            \o renderTables(tables, i + 1)

reducerLine(reducer) ==
    IF reducer.lifecycle # ""
    THEN <<Bullet, reducer.name, " [", reducer.lifecycle, "]">>
    ELSE <<Bullet, reducer.name>>

RECURSIVE renderReducers(_, _)
renderReducers(reducers, i) ==
    IF i > Len(reducers) THEN <<>>
    ELSE << <<>>, reducerLine(reducers[i]) >>
            \o (IF Len(reducers[i].params) > 0
                THEN renderParams(reducers[i].params, 1)
                ELSE << <<"    (no parameters)">> >>)
            \o renderReducers(reducers, i + 1)

\* The tables header counting the tables of the payload, not those parsed.
tablesHeader_InputCount(schema, tables) ==
    <<"TABLES (", ToString(Len(schema.tables)), "):">>

\* `TABLES (${tables.length}):`
tablesHeader(schema, tables) == <<"TABLES (", ToString(Len(tables)), "):">>

\* `REDUCERS (${reducers.length}):`
reducersHeader(reducers) == <<"REDUCERS (", ToString(Len(reducers)), "):">>

\* The text a call returns: its lines, followed by the pretty-printed JSON
\* of raw[1] when raw is not empty.
Text(lines, raw) == [lines |-> lines, raw |-> raw]

NoText == Text(<<>>, <<>>)

\* The report built inside the try block.
renderSchema(schema, tables, reducers) ==
    << <<"Database Schema">>, <<Repeat("=", 50)>>, <<>> >>
        \o << tablesHeader(schema, tables) >>
        \o (IF Len(tables) = 0 THEN << <<"  (none)">> >> ELSE renderTables(tables, 1))
        \o << <<>> >>
        \o << reducersHeader(reducers) >>
        \o (IF Len(reducers) = 0 THEN << <<"  (none)">> >> ELSE renderReducers(reducers, 1))

\* The try block of formatSchema.
formatSchemaTry(schema) ==
    LET tables == parseTables(schema)
    IN  IF ~tables.ok THEN Throw(tables.err, NoText)
        ELSE LET reducers == parseReducers(schema)
             IN  IF ~reducers.ok THEN Throw(reducers.err, NoText)
                 ELSE Return(Text(renderSchema(schema, tables.val, reducers.val), <<>>))

\* The validation taking an empty list for a missing one.
invalidSchema_EmptyLists(schema) ==
    \/ schema.nullish
    \/ ~schema.hasTables \/ schema.tables = <<>>
    \/ ~schema.hasReducers \/ schema.reducers = <<>>
    \/ ~schema.hasTypespace

\* !schema?.tables || !schema?.reducers || !schema?.typespace
invalidSchema(schema) ==
    schema.nullish \/ ~schema.hasTables \/ ~schema.hasReducers \/ ~schema.hasTypespace

\* The catch block rethrowing what it caught.
formatSchemaCatch_Rethrow(schema, message) == Throw(message, NoText)

\* The catch block of formatSchema.
formatSchemaCatch(schema, message) ==
    Return(Text(<< <<"Error formatting schema: ", message>>, <<>>, <<"Raw: ">> >>,
                <<schema>>))

formatSchema(schema) ==
    IF invalidSchema(schema)
    THEN Return(Text(<< <<"Invalid or empty schema">> >>, <<>>))
    ELSE LET tried == formatSchemaTry(schema)
         IN  IF tried.ok THEN tried ELSE formatSchemaCatch(schema, tried.err)

----------------------------------------------------------------------------
(* The log decoder.                                                        *)

\* One line of log text, or one element of a log array, as JSON.parse sees
\* it.  kind: "blank" (only white space), "garbage" (not JSON), "null" (the
\* JSON null) or "entry" (any other JSON value, read through its optional
\* fields; tsKind is "number", "missing" or "text").
LogEntry(level, tsKind, ts, target, message) ==
    [kind |-> "entry", level |-> level, tsKind |-> tsKind, ts |-> ts,
     target |-> target, filename |-> "main.rs", line_number |-> 42, message |-> message]

OtherLine(kind) ==
    [kind |-> kind, level |-> "", tsKind |-> "missing", ts |-> 0,
     target |-> "", filename |-> "", line_number |-> 0, message |-> ""]

\* The log payload: form is "text" (a string, lines its split("\n")),
\* "array" (lines its elements), "object" (lines its single object) or
\* "other" (null, a number, a boolean).
LogData(form, lines) == [form |-> form, lines |-> lines]

\* String.prototype.toLowerCase / toUpperCase over the levels that are drawn.
toLowerCase(str) ==
    CASE str = "WARN" -> "warn"
      [] str = "Info" -> "info"
      [] OTHER -> str

toUpperCase(str) ==
    CASE str = "info" -> "INFO"
      [] str = "warn" -> "WARN"
      [] str = "warning" -> "WARNING"
      [] OTHER -> str

\* String.prototype.padEnd(n) with spaces.
padEnd(str, n) == IF Len(str) >= n THEN str ELSE str \o Repeat(" ", n - Len(str))

\* new Date(Number(ts) / 1000): the time value is the quotient truncated
\* toward zero, and NaN (an invalid date) when ts is not a number.
newDate(tsKind, ts) ==
    IF tsKind = "number"
    THEN [valid |-> TRUE, ms |-> IF ts >= 0 THEN ts \div 1000 ELSE -((-ts) \div 1000)]
    ELSE [valid |-> FALSE, ms |-> 0]

\* Date.prototype.toISOString: the instant written out (the calendar
\* arithmetic is not modelled: the text names the millisecond), and a
\* RangeError for an invalid date.
toISOString(date) ==
    IF date.valid THEN Return("ISO:" \o ToString(date.ms))
    ELSE Throw("Invalid time value", "")

\* The lines parseLogData loops over.  An array or an object is serialized
\* first, one line per element: every such line is valid JSON.
logText(data) ==
    IF data.form \in {"text", "array"} THEN data.lines
    ELSE IF data.form = "object" THEN <<data.lines[1]>>
    ELSE <<>>

\* The loop of parseLogData from line i on.  A blank line is skipped, a line
\* that is not JSON throws inside the inner try and is skipped, and so does
\* the JSON null, whose fields cannot be read.
RECURSIVE parseLogLines(_, _, _)
parseLogLines(lines, i, logLines) ==
    IF i > Len(lines) THEN logLines
    ELSE LET line == lines[i]
         IN  IF line.kind # "entry" THEN parseLogLines(lines, i + 1, logLines)
             ELSE parseLogLines(lines, i + 1,
                      Append(logLines,
                             [level |-> toLowerCase(line.level),
                              ts |-> newDate(line.tsKind, line.ts),
                              target |-> line.target,
                              filename |-> line.filename,
                              line_number |-> line.line_number,
                              message |-> line.message]))

parseLogData(data) ==
    IF data.form = "other" THEN <<>>
    ELSE parseLogLines(logText(data), 1, <<>>)

\* logLines.map(...) of getLogs from line i on: the formatted lines, or the
\* RangeError of the first invalid timestamp.
RECURSIVE formatLogLines(_, _, _)
formatLogLines(logLines, i, formatted) ==
    IF i > Len(logLines) THEN Return(formatted)
    ELSE LET line == logLines[i]
             iso == toISOString(line.ts)
         IN  IF ~iso.ok THEN Throw(iso.err, <<>>)
             ELSE formatLogLines(logLines, i + 1,
                      Append(formatted,
                             <<"[", iso.val, "] ", padEnd(toUpperCase(line.level), 5),
                               " ", line.target, " - ", line.message>>))

----------------------------------------------------------------------------
(* The remote operations of SpacetimeClient.                               *)

\* config.host, as index.ts defaults it.
Host == "http://localhost:3000"

\* response.data.  kind "json": the body parsed as JSON, raw its compact
\* text; kind "text": a body that is not JSON, kept as the string raw.
\* schema and log are the same value as formatSchema and parseLogData read
\* it.
ResponseBody(kind, raw, schema, log) ==
    [kind |-> kind, raw |-> raw, schema |-> schema, log |-> log]

NoBody == ResponseBody("text", "", NullSchema, LogData("other", <<>>))

\* What the awaited axios call delivers: a response (validateStatus accepts
\* every status) or a thrown fault.
Response(status, data) ==
    [kind |-> "response", status |-> status, data |-> data, fault |-> ""]

\* A rejected request; message is NonError when the thrown value is not an
\* Error instance.
Fault(message) ==
    [kind |-> "fault", status |-> 0, data |-> NoBody, fault |-> message]

NoTransport == Fault("")

\* JSON.stringify(response.data), as the parts of the text.
JSONstringify(data) ==
    IF data.kind = "text" THEN <<"\"", data.raw, "\"">> ELSE <<data.raw>>

\* ToolResult.  data is [kind, text, body]: kind "string" is the text,
\* "body" is response.data passed through, "object" is an object literal
\* given by its entries, "undefined" is no data.
NoData == [kind |-> "undefined", text |-> NoText, body |-> NoBody]

StringData(text) == [kind |-> "string", text |-> text, body |-> NoBody]

BodyData(body) == [kind |-> "body", text |-> NoText, body |-> body]

ObjectData(entries) == [kind |-> "object", text |-> Text(entries, <<>>), body |-> NoBody]

Success(data) == [success |-> TRUE, data |-> data, error |-> <<>>]

Failure(error) == [success |-> FALSE, data |-> NoData, error |-> error]

\* response.status === 200 read as "any 2xx status".
statusOk_Any2xx(status) == status >= 200 /\ status < 300

\* response.status === 200
statusOk(status) == status = 200

\* `HTTP ${response.status}: ${JSON.stringify(response.data)}`
httpError(response) ==
    Failure(<<"HTTP ", ToString(response.status), ": ">> \o JSONstringify(response.data))

\* error instanceof Error ? error.message : "Unknown error"
errorMessage(thrown) == IF thrown = NonError THEN "Unknown error" ELSE thrown

\* A catch block that lets the fault through.
catchAs_Rethrow(prefix, thrown) == Throw(thrown, Failure(<<>>))

\* The catch block of a method: return { success: false, error: `<prefix>${message}` }.
catchAs(prefix, thrown) == Return(Failure(<<prefix, errorMessage(thrown)>>))

\* The body shared by the methods that pass response.data through: the
\* awaited request throws, or answers with a status other than 200, or 200.
relay(outcome, prefix) ==
    IF outcome.kind = "fault" THEN catchAs(prefix, outcome.fault)
    ELSE IF ~statusOk(outcome.status) THEN Return(httpError(outcome))
    ELSE Return(Success(BodyData(outcome.data)))

testConnection(outcome) ==
    IF outcome.kind = "fault" THEN catchAs("Connection failed: ", outcome.fault)
    ELSE IF statusOk(outcome.status)
    THEN Return(Success(ObjectData(<< <<"status", "connected">>, <<"host", Host>> >>)))
    ELSE Return(Failure(<<"Server returned status ", ToString(outcome.status)>>))

getSchema(db, outcome) ==
    IF outcome.kind = "fault" THEN catchAs("Failed to get schema: ", outcome.fault)
    ELSE IF ~statusOk(outcome.status) THEN Return(httpError(outcome))
    ELSE LET formatted == formatSchema(outcome.data.schema)
         IN  IF ~formatted.ok THEN catchAs("Failed to get schema: ", formatted.err)
             ELSE Return(Success(StringData(formatted.val)))

runSql(db, outcome) == relay(outcome, "SQL query failed: ")

callReducer(db, outcome) == relay(outcome, "Reducer call failed: ")

\* getLogs without its 404 case: a 404 is answered as any other status.
getLogs_Generic404(db, outcome) ==
    IF outcome.kind = "fault" THEN catchAs("Failed to fetch logs: ", outcome.fault)
    ELSE IF ~statusOk(outcome.status) THEN Return(httpError(outcome))
    ELSE LET logLines == parseLogData(outcome.data.log)
         IN  IF Len(logLines) = 0
             THEN Return(Success(StringData(Text(<< <<"No logs available">> >>, <<>>))))
             ELSE LET formatted == formatLogLines(logLines, 1, <<>>)
                  IN  IF ~formatted.ok THEN catchAs("Failed to fetch logs: ", formatted.err)
                      ELSE Return(Success(StringData(Text(formatted.val, <<>>))))

getLogs(db, outcome) ==
    IF outcome.kind = "fault" THEN catchAs("Failed to fetch logs: ", outcome.fault)
    ELSE IF outcome.status = 404
    THEN Return(Failure(<<"Database \"", db, "\" not found">>))
    ELSE IF ~statusOk(outcome.status) THEN Return(httpError(outcome))
    ELSE LET logLines == parseLogData(outcome.data.log)
         IN  IF Len(logLines) = 0
             THEN Return(Success(StringData(Text(<< <<"No logs available">> >>, <<>>))))
             ELSE LET formatted == formatLogLines(logLines, 1, <<>>)
                  IN  IF ~formatted.ok THEN catchAs("Failed to fetch logs: ", formatted.err)
                      ELSE Return(Success(StringData(Text(formatted.val, <<>>))))

describeDatabase(db, outcome) == relay(outcome, "Failed to describe database: ")

getDatabaseIdentity(db, outcome) == relay(outcome, "Failed to get database identity: ")

deleteDatabase(db, outcome) == relay(outcome, "Failed to delete database: ")

listDatabases(identity, outcome) == relay(outcome, "Failed to list databases: ")

addDatabaseAlias(identity, outcome) == relay(outcome, "Failed to add database alias: ")

getDatabaseAliases(identity, outcome) == relay(outcome, "Failed to get database aliases: ")

----------------------------------------------------------------------------
(* The handlers of the MCP server (server.ts, createHandlers).             *)
(*                                                                         *)
(* Argument values are strings: Undefined is a property that is not there, *)
(* False the boolean false, and any other text stands for the value with   *)
(* that JSON text (a string, true, an array).  count is a number, 0 when   *)
(* it is not given.  `arguments` left out of a request is the same object  *)
(* as one without properties (args ?? {}).                                 *)

Undefined == "<undefined>"

False == "<false>"

\* A test that every value passes.
Truthy_Always(value) == TRUE

\* ToBoolean of an argument value.
Truthy(value) == value \notin {Undefined, "", False}

NoArguments ==
    [database |-> Undefined, query |-> Undefined, format |-> Undefined,
     project_path |-> Undefined, clear_data |-> Undefined, identity |-> Undefined,
     name |-> Undefined, reducer |-> Undefined, args |-> Undefined, count |-> 0]

\* new URL(uri) as the handler reads it: the hostname and the segments of
\* pathname.split("/"); valid = FALSE is a text new URL rejects.
Uri(valid, hostname, segments) ==
    [valid |-> valid, hostname |-> hostname, segments |-> segments]

NoUri == Uri(FALSE, "", <<>>)

\* A request of the host.  kind: "callTool", "readResource", "listTools" or
\* "listResources"; name is the tool's name, or the uri as it was sent.
HostRequest(kind, name, arguments, uri) ==
    [kind |-> kind, name |-> name, arguments |-> arguments, uri |-> uri]

\* An outbound operation: a method of dbClient with its arguments (target
\* is the database or identity), or runPublishCommand with the command as
\* target, the argument list and the working directory.
Call(method, target, args, cwd) ==
    [method |-> method, target |-> target, args |-> args, cwd |-> cwd]

\* JSON.stringify(value, null, indent), kept as the value and the indent.
Json(value, indent) == [value |-> value, indent |-> indent]

\* A query result that is an array: rows is the sequence of its elements,
\* each [kind, entries] with kind "object" (entries its [key, cell] pairs in
\* key order), "null" or "scalar"; a cell is [kind, text] with kind "null"
\* (null or undefined), "object" (text its compact JSON) or "scalar".
RowsData(rows) == [kind |-> "rows", text |-> NoText, body |-> NoBody, rows |-> rows]

\* { content: [{ type: "text", text }], isError }; isError = FALSE is the
\* property left out.
ToolResponse(text, isError) == Return([text |-> text, isError |-> isError])

\* A response made of one literal line.
ErrorResponse(message) == ToolResponse(Text(<< <<message>> >>, <<>>), TRUE)

\* throw new McpError(code, message)
McpError(code, message) == [ok |-> FALSE, val |-> code, err |-> message]

\* typeof data === "string" ? data : JSON.stringify(data, null, indent)
dataText(data, indent) ==
    IF data.kind = "string" THEN data.text ELSE Text(<<>>, <<Json(data, indent)>>)

\* The conversion without the isError mark on a failure.
formatToolResult_Unmarked(toolResult) ==
    IF toolResult.success
    THEN ToolResponse(dataText(toolResult.data, 2), FALSE)
    ELSE ToolResponse(Text(<< <<"Error: ">> \o toolResult.error >>, <<>>), FALSE)

formatToolResult(toolResult) ==
    IF toolResult.success
    THEN ToolResponse(dataText(toolResult.data, 2), FALSE)
    ELSE ToolResponse(Text(<< <<"Error: ">> \o toolResult.error >>, <<>>), TRUE)

\* `| ${cells.join(" | ")} |`, as the parts of the line.
RECURSIVE joinCells(_, _)
joinCells(cells, i) ==
    IF i > Len(cells) THEN <<" |">>
    ELSE <<(IF i = 1 THEN "| " ELSE " | "), cells[i]>> \o joinCells(cells, i + 1)

\* record[header] rendered as a cell: "" for null or undefined, the compact
\* JSON of an object, String(value) otherwise.  A row that is not an object
\* has no property; reading one of a null row throws.
cellOf(row, header) ==
    IF row.kind = "null"
    THEN Throw(TypeErrorMessage(header), "")
    ELSE LET found == SelectSeq(row.entries, LAMBDA entry : entry.key = header)
         IN  IF row.kind # "object" \/ found = <<>> \/ found[1].cell.kind = "null"
             THEN Return("")
             ELSE Return(found[1].cell.text)

\* data.map((row) => ...) of formatSqlMarkdown, from row i on.
RECURSIVE markdownRows(_, _, _, _)
markdownRows(rows, headers, i, lines) ==
    IF i > Len(rows) THEN Return(lines)
    ELSE LET cells == [h \in 1 .. Len(headers) |-> cellOf(rows[i], headers[h])]
         IN  IF \E h \in 1 .. Len(headers) : ~cells[h].ok
             THEN Throw(cells[1].err, <<>>)
             ELSE markdownRows(rows, headers, i + 1,
                      Append(lines, joinCells([h \in 1 .. Len(headers) |-> cells[h].val], 1)))

formatSqlMarkdown(data) ==
    IF data.kind # "rows" THEN Return(dataText(data, 2))
    ELSE IF data.rows = <<>> THEN Return(Text(<<>>, <<>>))
    ELSE IF data.rows[1].kind # "object" \/ data.rows[1].entries = <<>>
    THEN Return(Text(<<>>, <<Json(data, 2)>>))
    ELSE LET headers == [h \in 1 .. Len(data.rows[1].entries) |-> data.rows[1].entries[h].key]
             rows == markdownRows(data.rows, headers, 1, <<>>)
         IN  IF ~rows.ok THEN Throw(rows.err, NoText)
             ELSE Return(Text(<<joinCells(headers, 1),
                                joinCells([h \in 1 .. Len(headers) |-> "---"], 1)>>
                              \o rows.val, <<>>))

\* One entry of the list listTools returns: the tool's name, the names of
\* its declared properties and its required list.
Tool(name, properties, required) ==
    [name |-> name, properties |-> properties, required |-> required]

listTools(defaultDatabase) ==
    <<Tool("test_connection", <<>>, <<>>),
      Tool("get_schema", <<"database">>,
           IF Truthy(defaultDatabase) THEN <<>> ELSE <<"database">>),
      Tool("sql_query", <<"database", "query", "format">>,
           IF Truthy(defaultDatabase) THEN <<"query">> ELSE <<"database", "query">>),
      Tool("publish_database", <<"database", "project_path", "clear_data">>,
           IF Truthy(defaultDatabase) THEN <<"project_path">>
           ELSE <<"database", "project_path">>),
      Tool("describe_database", <<"database">>,
           IF Truthy(defaultDatabase) THEN <<>> ELSE <<"database">>),
      Tool("get_database_identity", <<"database">>,
           IF Truthy(defaultDatabase) THEN <<>> ELSE <<"database">>),
      Tool("delete_database", <<"database">>,
           IF Truthy(defaultDatabase) THEN <<>> ELSE <<"database">>),
      Tool("list_databases", <<"identity">>, <<"identity">>),
      Tool("add_database_alias", <<"identity", "name">>, <<"identity", "name">>),
      Tool("get_database_aliases", <<"identity">>, <<"identity">>),
      Tool("call_reducer", <<"database", "reducer", "args">>,
           IF Truthy(defaultDatabase) THEN <<"reducer", "args">>
           ELSE <<"database", "reducer", "args">>),
      Tool("get_logs", <<"database", "count">>,
           IF Truthy(defaultDatabase) THEN <<>> ELSE <<"database">>)>>

\* What a handler does up to its first await: it answers at once, or it
\* starts one outbound operation and waits for it.
NoCall == Call("", "", <<>>, "")

Responded(response) == [await |-> FALSE, call |-> NoCall, response |-> response]

Awaiting(call) == [await |-> TRUE, call |-> call, response |-> Return("")]

\* The database falling back to a made-up name when there is none at all.
toolDatabase_Placeholder(cfg, safeArgs) ==
    IF Truthy(safeArgs.database) THEN safeArgs.database
    ELSE IF Truthy(cfg.defaultDatabase) THEN cfg.defaultDatabase
    ELSE "default"

\* The configured default taking precedence over the request's database.
toolDatabase_DefaultFirst(cfg, safeArgs) ==
    IF Truthy(cfg.defaultDatabase) THEN cfg.defaultDatabase ELSE safeArgs.database

\* (safeArgs.database as string) || defaultDatabase
toolDatabase(cfg, safeArgs) ==
    IF Truthy(safeArgs.database) THEN safeArgs.database ELSE cfg.defaultDatabase

\* The argument list with the two optional flags in the other order.
publishArgs_FlagsSwapped(host, db, projectPath, clearData) ==
    <<"publish", db, "--project-path", projectPath, "-y">>
        \o (IF clearData THEN <<"--delete-data">> ELSE <<>>)
        \o (IF host # "" THEN <<"--server", host>> ELSE <<>>)

\* The argument list of the publish command.
publishArgs(host, db, projectPath, clearData) ==
    <<"publish", db, "--project-path", projectPath, "-y">>
        \o (IF Truthy(host) THEN <<"--server", host>> ELSE <<>>)
        \o (IF clearData THEN <<"--delete-data">> ELSE <<>>)

\* callTool up to its await.
callToolBegin(cfg, request) ==
    LET name == request.name
        safeArgs == request.arguments
        db == toolDatabase(cfg, safeArgs)
    IN  IF name = "test_connection" THEN Awaiting(Call("testConnection", "", <<>>, ""))
        ELSE IF ~Truthy(db)
        THEN Responded(ErrorResponse("Error: No database specified and no default configured."))
        ELSE CASE name = "get_schema" -> Awaiting(Call("getSchema", db, <<>>, ""))
               [] name = "sql_query" ->
                      IF ~Truthy(safeArgs.query)
                      THEN Responded(ErrorResponse("Error: No query provided."))
                      ELSE Awaiting(Call("runSql", db, <<safeArgs.query>>, ""))
               [] name = "publish_database" ->
                      IF ~Truthy(safeArgs.project_path)
                      THEN Responded(ErrorResponse("Error: No project_path provided."))
                      ELSE Awaiting(Call("runPublishCommand", "spacetime",
                                         publishArgs(cfg.host, db, safeArgs.project_path,
                                                     Truthy(safeArgs.clear_data)),
                                         safeArgs.project_path))
               [] name = "describe_database" -> Awaiting(Call("describeDatabase", db, <<>>, ""))
               [] name = "get_database_identity" ->
                      Awaiting(Call("getDatabaseIdentity", db, <<>>, ""))
               [] name = "delete_database" -> Awaiting(Call("deleteDatabase", db, <<>>, ""))
               [] name = "list_databases" ->
                      IF ~Truthy(safeArgs.identity)
                      THEN Responded(ErrorResponse("Error: No identity provided."))
                      ELSE Awaiting(Call("listDatabases", safeArgs.identity, <<>>, ""))
               [] name = "add_database_alias" ->
                      IF ~Truthy(safeArgs.identity) \/ ~Truthy(safeArgs.name)
                      THEN Responded(ErrorResponse("Error: Identity and name are required."))
                      ELSE Awaiting(Call("addDatabaseAlias", safeArgs.identity,
                                         <<safeArgs.name>>, ""))
               [] name = "get_database_aliases" ->
                      IF ~Truthy(safeArgs.identity)
                      THEN Responded(ErrorResponse("Error: No identity provided."))
                      ELSE Awaiting(Call("getDatabaseAliases", safeArgs.identity, <<>>, ""))
               [] name = "call_reducer" ->
                      IF ~Truthy(safeArgs.reducer)
                      THEN Responded(ErrorResponse("Error: No reducer name provided."))
                      ELSE Awaiting(Call("callReducer", db,
                                         <<safeArgs.reducer,
                                           IF safeArgs.args = Undefined THEN "[]"
                                           ELSE safeArgs.args>>, ""))
               [] name = "get_logs" ->
                      Awaiting(Call("getLogs", db,
                                    <<ToString(IF safeArgs.count = 0 THEN 50
                                               ELSE safeArgs.count)>>, ""))
               [] OTHER -> Responded(McpError("MethodNotFound", <<"Tool not found: ", name>>))

\* text?.trim() over the texts that are drawn.
trim(text) ==
    CASE text = "  " -> ""
      [] text = "Published.\n" -> "Published."
      [] text = " warning: unused\n" -> "warning: unused"
      [] OTHER -> text

\* [..].map((text) => text?.trim()).filter(Boolean), joined by "\n": the
\* lines of the joined text.
trimmedLines(texts) ==
    SelectSeq([i \in 1 .. Len(texts) |-> trim(texts[i])], Truthy)

\* The publish case without its catch: a rejected command rejects the call.
publishResponse_Rethrow(outcome) ==
    IF outcome.resolved
    THEN ToolResponse(Text([i \in 1 .. Len(trimmedLines(<<outcome.stdout, outcome.stderr>>)) |->
                               <<trimmedLines(<<outcome.stdout, outcome.stderr>>)[i]>>], <<>>),
                      FALSE)
    ELSE [ok |-> FALSE, val |-> "Error", err |-> <<outcome.message>>]

\* The publish case of callTool after its await: outcome is what
\* runPublishCommand resolved with, or the error it rejected with.
publishResponse(outcome) ==
    IF outcome.resolved
    THEN LET output == trimmedLines(<<outcome.stdout, outcome.stderr>>)
         IN  ToolResponse(Text(IF output = <<>> THEN << <<"Publish command completed.">> >>
                               ELSE [i \in 1 .. Len(output) |-> <<output[i]>>], <<>>),
                          FALSE)
    ELSE LET details == trimmedLines(<<outcome.stdout, outcome.stderr, outcome.message>>)
         IN  ToolResponse(Text([i \in 1 .. (IF details = <<>> THEN 1 ELSE Len(details)) |->
                                    IF i = 1
                                    THEN <<"Error: Publish failed. ">> \o SubSeq(details, 1, 1)
                                    ELSE <<details[i]>>], <<>>),
                          TRUE)

\* callTool after its await, with what the outbound operation came back with.
callToolEnd(request, reply) ==
    CASE request.name = "sql_query" ->
             IF ~reply.success
                \/ (IF Truthy(request.arguments.format) THEN request.arguments.format
                    ELSE "json") # "markdown"
             THEN formatToolResult(reply)
             ELSE LET text == formatSqlMarkdown(reply.data)
                  IN  IF text.ok THEN ToolResponse(text.val, FALSE)
                      ELSE [ok |-> FALSE, val |-> "TypeError", err |-> <<text.err>>]
      [] request.name = "publish_database" -> publishResponse(reply)
      [] OTHER -> formatToolResult(reply)

\* The last segment of the path instead of the first.
resourceType_LastSegment(uri) ==
    LET named == SelectSeq(uri.segments, LAMBDA segment : segment # "")
    IN  IF named = <<>> THEN Undefined ELSE named[Len(named)]

\* uri.pathname.split("/").filter(Boolean)[0]
resourceType(uri) ==
    LET named == SelectSeq(uri.segments, LAMBDA segment : segment # "")
    IN  IF named = <<>> THEN Undefined ELSE named[1]

\* readResource up to its await.
readResourceBegin(cfg, request) ==
    IF ~request.uri.valid
    THEN Responded([ok |-> FALSE, val |-> "TypeError", err |-> <<"Invalid URL">>])
    ELSE LET db == IF request.uri.hostname # "" THEN request.uri.hostname
                   ELSE cfg.defaultDatabase
         IN  IF ~Truthy(db)
             THEN Responded(McpError("InvalidRequest", <<"No database specified in URI">>))
             ELSE IF resourceType(request.uri) = "logs"
             THEN Awaiting(Call("getLogs", db, <<"100">>, ""))
             ELSE IF resourceType(request.uri) = "schema"
             THEN Awaiting(Call("getSchema", db, <<>>, ""))
             ELSE Responded(McpError("InvalidRequest",
                                     <<"Unknown resource: ", request.name>>))

\* readResource after its await.
readResourceEnd(request, reply) ==
    Return([uri |-> request.name, mimeType |-> "text/plain",
            text |-> IF reply.success THEN dataText(reply.data, 0)
                     ELSE Text(<< <<"Error: ">> \o reply.error >>, <<>>)])

\* listResources
listResources == Return([resources |-> <<>>])

----------------------------------------------------------------------------
(* Inputs of the resolver.                                                 *)

UserDef == TypeDef(TRUE, "User", 0)

ProfileDef == TypeDef(TRUE, "Profile", 1)

\* A type-table entry without a declared name (name or name.name absent).
NamelessDef == TypeDef(FALSE, "", 0)

TypeTables ==
    {<<>>, <<UserDef>>, <<UserDef, ProfileDef>>, <<NamelessDef, ProfileDef>>}

\* Ref indices that are drawn: negative, inside and beyond every table.
RefIndices == -1 .. 2

IdentityField == Element(Some("__identity__"), Prim("U256"))

IdField == Element(Some("id"), Prim("U64"))

ProductShapes ==
    {<<>>, <<IdentityField>>, <<Element(Some("__identity__"), Prim("String"))>>,
     <<IdField>>, <<Element(None, Prim("U256"))>>,
     <<IdentityField, IdField>>, <<IdField, IdentityField>>}

SumShapes ==
    {<<>>, <<Element(Some("Admin"), Prim("U8"))>>, <<IdentityField>>}

\* Objects carrying several keys, and none: only entries[0] is read.
ManyKeyTypes ==
    {<<Tag("U8"), Tag("String")>>,
     <<Tag("Sum"), Tag("Product")>>,
     <<[Tag("Ref") EXCEPT !.ref = 0], Tag("U8")>>,
     <<Tag("Custom"), Tag("U8")>>,
     <<[Tag("Array") EXCEPT !.inner = Prim("U8")], Tag("String")>>,
     <<Tag("Bool"), [Tag("Option") EXCEPT !.inner = Prim("I32")]>>}

LeafTypes ==
    {Prim(p) : p \in primitives}
        \cup {<<>>, Prim("Custom"), Prim("Map")}
        \cup {RefTo(i) : i \in RefIndices}
        \cup {ProductOf(e) : e \in ProductShapes}
        \cup {SumOf(v) : v \in SumShapes}
        \cup ManyKeyTypes

RECURSIVE TypesUpTo(_)
TypesUpTo(d) ==
    IF d = 0 THEN LeafTypes
    ELSE LET S == TypesUpTo(d - 1)
         IN  S \cup {ArrayOf(t) : t \in S} \cup {OptionOf(t) : t \in S}

\* A schema that holds only a type table (or lacks it): all resolveType reads.
TypesOnlySchema(hasTypes, types) ==
    Schema(TRUE, <<>>, TRUE, <<>>, TRUE, <<>>, hasTypes, types)

\* A schema whose type table is cyclic: the body of entry 0 refers to entry
\* 0 itself, and the bodies of entries 1 and 2 refer to each other.
CyclicSchema ==
    Schema(TRUE, <<>>, TRUE, <<>>, TRUE,
           <<Body("Product", <<Element(Some("next"), RefTo(0))>>),
             Body("Product", <<Element(Some("other"), RefTo(2))>>),
             Body("Sum", <<Element(Some("back"), RefTo(1))>>)>>,
           TRUE,
           <<TypeDef(TRUE, "Node", 0), TypeDef(TRUE, "Ping", 1), TypeDef(FALSE, "", 2)>>)

ResolveSchemas ==
    {TypesOnlySchema(TRUE, t) : t \in TypeTables}
        \cup {TypesOnlySchema(FALSE, <<>>), CyclicSchema}

----------------------------------------------------------------------------
(* Inputs of the formatter.                                                *)

\* A type table whose entries point at a Product body, at a Sum body and
\* past the end of the typespace, over a two-body typespace.
FormatTypes == <<TypeDef(TRUE, "User", 0), TypeDef(TRUE, "Role", 1), TypeDef(TRUE, "Ghost", 7)>>

FormatTypespace ==
    <<Body("Product", <<IdField,
                        Element(None, ArrayOf(Prim("String"))),
                        Element(Some("role"), RefTo(1))>>),
      Body("Sum", <<Element(Some("Admin"), Prim("U8"))>>)>>

\* product_type_ref values that are drawn: negative, each entry, past the end.
TableRefs == -1 .. 3

TableName(k) == "table" \o ToString(k)

ReducerName(k) == "reducer" \o ToString(k)

\* The shapes a drawn reducer takes: [hasSome, keys, params].
ReducerShapes ==
    {[hasSome |-> FALSE, keys |-> <<>>, params |-> <<>>],
     [hasSome |-> TRUE, keys |-> <<"Init">>,
      params |-> <<Element(Some("name"), Prim("String")),
                   Element(Some("role"), SumOf(<<>>))>>],
     [hasSome |-> TRUE, keys |-> <<>>,
      params |-> <<Element(None, RefTo(0))>>],
     [hasSome |-> TRUE, keys |-> <<"OnConnect", "Init">>,
      params |-> <<Element(Some("tags"), ArrayOf(OptionOf(RefTo(9)))),
                   Element(None, <<>>),
                   Element(Some("n"), Prim("U8"))>>]}

SeqsUpTo(S, n) == UNION {[1 .. k -> S] : k \in 0 .. n}

TableLists ==
    {[k \in 1 .. Len(refs) |-> Table(TableName(k), refs[k])] : refs \in SeqsUpTo(TableRefs, MaxTables)}

ReducerLists ==
    {[k \in 1 .. Len(shapes) |->
          Reducer(ReducerName(k), shapes[k].hasSome, shapes[k].keys, shapes[k].params)] :
        shapes \in SeqsUpTo(ReducerShapes, MaxReducers)}

\* The payloads format is run on: null, and objects in which each of the
\* four top-level fields is present or absent.
FormatSchemas ==
    {NullSchema}
        \cup {Schema(TRUE, t, TRUE, r, hasTypespace, IF hasTypespace THEN FormatTypespace ELSE <<>>,
                     hasTypes, IF hasTypes THEN FormatTypes ELSE <<>>) :
                t \in TableLists, r \in ReducerLists,
                hasTypespace \in BOOLEAN, hasTypes \in BOOLEAN}
        \cup {Schema(FALSE, <<>>, TRUE, r, TRUE, FormatTypespace, TRUE, FormatTypes) :
                r \in ReducerLists}
        \cup {Schema(TRUE, t, FALSE, <<>>, TRUE, FormatTypespace, TRUE, FormatTypes) :
                t \in TableLists}

----------------------------------------------------------------------------
(* Inputs of the client.                                                   *)

Operations ==
    {"testConnection", "getSchema", "runSql", "callReducer", "getLogs",
     "describeDatabase", "getDatabaseIdentity", "deleteDatabase",
     "listDatabases", "addDatabaseAlias", "getDatabaseAliases"}

\* The database (or identity) argument of a call.
Databases == {"strc", "alpha"}

\* HTTP statuses that are drawn: 200, another 2xx, 404 and a server error.
Statuses == {200, 201, 404, 500}

Faults == {Fault("connect ECONNREFUSED 127.0.0.1:3000"), Fault(NonError)}

\* An object or a string that has none of the fields of a RawSchema.
FieldlessSchema == Schema(FALSE, <<>>, FALSE, <<>>, FALSE, <<>>, FALSE, <<>>)

\* Bodies of no particular endpoint: a JSON object, a text and the empty body.
GenericBodies ==
    {ResponseBody("json", "{\"error\":\"oops\"}", FieldlessSchema,
                  LogData("object", <<OtherLine("entry")>>)),
     ResponseBody("text", "Not Found", FieldlessSchema,
                  LogData("text", <<OtherLine("garbage")>>)),
     ResponseBody("text", "", FieldlessSchema,
                  LogData("text", <<OtherLine("blank")>>))}

\* A 200 body of the schema endpoint (raw stands for its JSON text).
SchemaBody(schema) ==
    ResponseBody("json", "{schema}", schema,
                 IF schema.nullish THEN LogData("other", <<>>)
                 ELSE LogData("object", <<OtherLine("entry")>>))

ClientSchemas ==
    {schema \in FormatSchemas : Len(schema.tables) <= 1 /\ Len(schema.reducers) <= 1}

LogEntries ==
    {LogEntry("info", "number", 1700000, "server", "connected"),
     LogEntry("WARN", "missing", 0, "db", "slow query"),
     LogEntry("warning", "number", -1500, "", "")}

TextLogLines ==
    LogEntries \cup {OtherLine("blank"), OtherLine("garbage"), OtherLine("null")}

ArrayLogLines == LogEntries \cup {OtherLine("null")}

LogPayloads ==
    {LogData("text", lines) : lines \in SeqsUpTo(TextLogLines, MaxLogLines)}
        \cup {LogData("array", lines) : lines \in SeqsUpTo(ArrayLogLines, MaxLogLines)}
        \cup {LogData("object", <<entry>>) : entry \in LogEntries}
        \cup {LogData("other", <<>>)}

\* A 200 body of the logs endpoint (raw stands for its text).
LogBody(log) ==
    ResponseBody(IF log.form = "text" THEN "text" ELSE "json", "{logs}", FieldlessSchema, log)

\* What the request of operation o can come back with.
Outcomes(o) ==
    {Response(status, data) : status \in Statuses, data \in GenericBodies}
        \cup Faults
        \cup (IF o = "getSchema"
              THEN {Response(200, SchemaBody(schema)) : schema \in ClientSchemas}
              ELSE {})
        \cup (IF o = "getLogs"
              THEN {Response(200, LogBody(log)) : log \in LogPayloads}
                       \cup {Response(404, LogBody(LogData("text", <<entry>>))) :
                                entry \in LogEntries}
              ELSE {})

----------------------------------------------------------------------------
(* Inputs of the handlers.                                                 *)

\* ServerConfig: with and without a host, with and without a default database.
Configs ==
    {[host |-> h, token |-> "token", defaultDatabase |-> d] :
        h \in {"", Host}, d \in {"", "maindb"}}

\* The `database` argument: left out, or given.
DatabaseArguments == {Undefined, "reqdb"}

ToolCall(name, arguments) == HostRequest("callTool", name, arguments, NoUri)

ToolRequests ==
    {ToolCall("test_connection", NoArguments)}
        \cup {ToolCall("get_schema", [NoArguments EXCEPT !.database = d]) :
                d \in DatabaseArguments \cup {""}}
        \cup {ToolCall(name, [NoArguments EXCEPT !.database = d]) :
                name \in {"describe_database", "get_database_identity",
                          "delete_database", "drop_table"},
                d \in DatabaseArguments}
        \cup {ToolCall("get_logs", [NoArguments EXCEPT !.database = d, !.count = c]) :
                d \in DatabaseArguments, c \in {0, 10}}
        \cup {ToolCall("sql_query",
                       [NoArguments EXCEPT !.database = d, !.query = q, !.format = f]) :
                d \in DatabaseArguments, q \in {Undefined, "SELECT 1"},
                f \in {Undefined, "markdown"}}
        \cup {ToolCall("publish_database",
                       [NoArguments EXCEPT !.database = d, !.project_path = p,
                                           !.clear_data = c]) :
                d \in DatabaseArguments, p \in {Undefined, "/srv/module"},
                c \in {Undefined, False, "true"}}
        \cup {ToolCall(name, [NoArguments EXCEPT !.database = d, !.identity = i]) :
                name \in {"list_databases", "get_database_aliases"},
                d \in DatabaseArguments, i \in {Undefined, "0xabc"}}
        \cup {ToolCall("add_database_alias",
                       [NoArguments EXCEPT !.database = d, !.identity = i, !.name = n]) :
                d \in DatabaseArguments, i \in {Undefined, "0xabc"},
                n \in {Undefined, "alias-a"}}
        \cup {ToolCall("call_reducer",
                       [NoArguments EXCEPT !.database = d, !.reducer = r, !.args = a]) :
                d \in DatabaseArguments, r \in {Undefined, "CreateUser"},
                a \in {Undefined, "[\"alpha\"]"}}

\* Resource URIs as new URL reads them: a non-special scheme keeps the host
\* as written, and the pathname starts with "/" when there is one.
ResourceRequests ==
    {HostRequest("readResource", "spacetimedb://resdb/logs", NoArguments,
                 Uri(TRUE, "resdb", <<"", "logs">>)),
     HostRequest("readResource", "spacetimedb:///logs", NoArguments,
                 Uri(TRUE, "", <<"", "logs">>)),
     HostRequest("readResource", "spacetimedb://resdb/schema/extra", NoArguments,
                 Uri(TRUE, "resdb", <<"", "schema", "extra">>)),
     HostRequest("readResource", "spacetimedb:///schema", NoArguments,
                 Uri(TRUE, "", <<"", "schema">>)),
     HostRequest("readResource", "spacetimedb://resdb/tables", NoArguments,
                 Uri(TRUE, "resdb", <<"", "tables">>)),
     HostRequest("readResource", "spacetimedb://resdb", NoArguments,
                 Uri(TRUE, "resdb", <<"">>)),
     HostRequest("readResource", "not a uri", NoArguments, NoUri)}

\* What a method of dbClient resolves with.  SpacetimeClient never rejects
\* (its methods catch everything), so a reply is always a ToolResult.
ClientReplies ==
    {Success(StringData(Text(<< <<"log-output">> >>, <<>>))),
     Success(ObjectData(<< <<"ok", "true">> >>)),
     Failure(<<"HTTP ", "500", ": ", "{\"error\":\"fail\"}">>)}

SqlReplies ==
    {Failure(<<"HTTP ", "400", ": ", "{\"error\":\"bad\"}">>),
     Success(RowsData(<<>>)),
     Success(RowsData(<<[kind |-> "object",
                         entries |-> <<[key |-> "id", cell |-> [kind |-> "scalar", text |-> "1"]],
                                       [key |-> "name", cell |-> [kind |-> "scalar", text |-> "alpha"]]>>],
                        [kind |-> "object",
                         entries |-> <<[key |-> "name", cell |-> [kind |-> "null", text |-> ""]],
                                       [key |-> "tags", cell |-> [kind |-> "object", text |-> "[1]"]]>>]>>)),
     Success(RowsData(<<[kind |-> "object",
                         entries |-> <<[key |-> "id", cell |-> [kind |-> "scalar", text |-> "1"]]>>],
                        [kind |-> "null", entries |-> <<>>]>>)),
     Success(RowsData(<<[kind |-> "scalar", entries |-> <<>>]>>))}

\* What runPublishCommand resolves with, or the error it rejects with.
PublishOutcomes ==
    {[resolved |-> TRUE, stdout |-> "Published.\n", stderr |-> " warning: unused\n",
      message |-> Undefined],
     [resolved |-> TRUE, stdout |-> "", stderr |-> "  ", message |-> Undefined],
     [resolved |-> FALSE, stdout |-> Undefined, stderr |-> Undefined,
      message |-> "spawn spacetime ENOENT"],
     [resolved |-> FALSE, stdout |-> "Published.\n", stderr |-> " warning: unused\n",
      message |-> "Command failed: spacetime publish"]}

\* What the outbound operation can come back with.
Replies(call) ==
    IF call.method = "runPublishCommand" THEN PublishOutcomes
    ELSE IF call.method = "runSql" THEN SqlReplies
    ELSE ClientReplies

----------------------------------------------------------------------------
(* Specifications.  Each draws the inputs of one entry point and runs it;  *)
(* the variables of the other entry points stay at rest.                   *)

NoCompletion == Return("")

RestResolve ==
    /\ rSchema = NullSchema
    /\ rType = <<>>
    /\ rOut = NoCompletion
    /\ rPc = "rest"

RestFormat ==
    /\ fSchema = NullSchema
    /\ fOut = Return(NoText)
    /\ fPc = "rest"

RestClient ==
    /\ pc = "rest"
    /\ op = ""
    /\ database = ""
    /\ transport = NoTransport
    /\ result = Return(Failure(<<>>))

\* The server after createServer: the configuration is fixed and no
\* invocation is in flight.  A slot holds one invocation of a handler: its
\* request (the locals of the call), the outbound operations it has
\* started, what the awaited operation came back with, and its completion;
\* overlapped records that another invocation was waiting when this one
\* was resumed.
NoRequest == HostRequest("", "", NoArguments, NoUri)

NoReply == Failure(<<>>)

IdleSlot ==
    [pc |-> "idle", request |-> NoRequest, calls |-> <<>>, reply |-> NoReply,
     response |-> Return(""), overlapped |-> FALSE]

\* The server of the other entry points: index.ts defaults, nothing in flight.
RestServer ==
    /\ config = [host |-> Host, token |-> "", defaultDatabase |-> ""]
    /\ slots = [i \in 1 .. MaxInFlight |-> IdleSlot]

InitResolve ==
    /\ rSchema \in ResolveSchemas
    /\ rType \in TypesUpTo(MaxDepth)
    /\ rOut = NoCompletion
    /\ rPc = "input"
    /\ RestFormat
    /\ RestClient
    /\ RestServer

\* One call of resolveType(schema, algebraicType).
Resolve ==
    /\ rPc = "input"
    /\ rOut' = resolveType(rSchema, rType)
    /\ rPc' = "done"
    /\ UNCHANGED <<rSchema, rType>>
    /\ UNCHANGED fVars
    /\ UNCHANGED cVars
    /\ UNCHANGED sVars

NextResolve == Resolve

SpecResolve == InitResolve /\ [][NextResolve]_vars

InitFormat ==
    /\ fSchema \in FormatSchemas
    /\ fOut = Return(NoText)
    /\ fPc = "input"
    /\ RestResolve
    /\ RestClient
    /\ RestServer

\* One call of formatSchema(schema).
Format ==
    /\ fPc = "input"
    /\ fOut' = formatSchema(fSchema)
    /\ fPc' = "done"
    /\ UNCHANGED fSchema
    /\ UNCHANGED rVars
    /\ UNCHANGED cVars
    /\ UNCHANGED sVars

NextFormat == Format

SpecFormat == InitFormat /\ [][NextFormat]_vars

\* The client after construction: no call in flight.
Init ==
    /\ pc = "idle"
    /\ op = ""
    /\ database = ""
    /\ transport = NoTransport
    /\ result = Return(Failure(<<>>))
    /\ RestResolve
    /\ RestFormat
    /\ RestServer

\* A method is invoked and sends its request: the call waits at its await.
Request ==
    /\ pc = "idle"
    /\ \E o \in Operations, db \in Databases :
          /\ op' = o
          /\ database' = db
    /\ pc' = "awaiting"
    /\ UNCHANGED <<transport, result>>
    /\ UNCHANGED rVars
    /\ UNCHANGED fVars
    /\ UNCHANGED sVars

\* The awaited request settles with `delivered` and the method runs to its
\* end, completing with `completion`.
Settled(delivered, completion) ==
    /\ transport' = delivered
    /\ result' = completion
    /\ pc' = "done"
    /\ UNCHANGED <<op, database>>
    /\ UNCHANGED rVars
    /\ UNCHANGED fVars
    /\ UNCHANGED sVars

TestConnection ==
    /\ pc = "awaiting"
    /\ op = "testConnection"
    /\ \E t \in Outcomes("testConnection") : Settled(t, testConnection(t))

GetSchema ==
    /\ pc = "awaiting"
    /\ op = "getSchema"
    /\ \E t \in Outcomes("getSchema") : Settled(t, getSchema(database, t))

RunSql ==
    /\ pc = "awaiting"
    /\ op = "runSql"
    /\ \E t \in Outcomes("runSql") : Settled(t, runSql(database, t))

CallReducer ==
    /\ pc = "awaiting"
    /\ op = "callReducer"
    /\ \E t \in Outcomes("callReducer") : Settled(t, callReducer(database, t))

GetLogs ==
    /\ pc = "awaiting"
    /\ op = "getLogs"
    /\ \E t \in Outcomes("getLogs") : Settled(t, getLogs(database, t))

DescribeDatabase ==
    /\ pc = "awaiting"
    /\ op = "describeDatabase"
    /\ \E t \in Outcomes("describeDatabase") : Settled(t, describeDatabase(database, t))

GetDatabaseIdentity ==
    /\ pc = "awaiting"
    /\ op = "getDatabaseIdentity"
    /\ \E t \in Outcomes("getDatabaseIdentity") : Settled(t, getDatabaseIdentity(database, t))

DeleteDatabase ==
    /\ pc = "awaiting"
    /\ op = "deleteDatabase"
    /\ \E t \in Outcomes("deleteDatabase") : Settled(t, deleteDatabase(database, t))

ListDatabases ==
    /\ pc = "awaiting"
    /\ op = "listDatabases"
    /\ \E t \in Outcomes("listDatabases") : Settled(t, listDatabases(database, t))

AddDatabaseAlias ==
    /\ pc = "awaiting"
    /\ op = "addDatabaseAlias"
    /\ \E t \in Outcomes("addDatabaseAlias") : Settled(t, addDatabaseAlias(database, t))

GetDatabaseAliases ==
    /\ pc = "awaiting"
    /\ op = "getDatabaseAliases"
    /\ \E t \in Outcomes("getDatabaseAliases") : Settled(t, getDatabaseAliases(database, t))

\* The caller has taken the result; the client is ready for the next call.
Finish ==
    /\ pc = "done"
    /\ pc' = "idle"
    /\ op' = ""
    /\ database' = ""
    /\ transport' = NoTransport
    /\ result' = Return(Failure(<<>>))
    /\ UNCHANGED rVars
    /\ UNCHANGED fVars
    /\ UNCHANGED sVars

Next ==
    \/ Request
    \/ TestConnection
    \/ GetSchema
    \/ RunSql
    \/ CallReducer
    \/ GetLogs
    \/ DescribeDatabase
    \/ GetDatabaseIdentity
    \/ DeleteDatabase
    \/ ListDatabases
    \/ AddDatabaseAlias
    \/ GetDatabaseAliases
    \/ Finish

Spec == Init /\ [][Next]_vars

InitServer ==
    /\ config \in Configs
    /\ slots = [i \in 1 .. MaxInFlight |-> IdleSlot]
    /\ RestResolve
    /\ RestFormat
    /\ RestClient

\* An invocation runs up to its first await: it completes at once or it has
\* started its outbound operation and waits.
Begun(i, request, begun) ==
    /\ slots' = [slots EXCEPT ![i] =
                    [pc |-> IF begun.await THEN "awaiting" ELSE "done",
                     request |-> request,
                     calls |-> IF begun.await THEN Append(slots[i].calls, begun.call)
                               ELSE slots[i].calls,
                     reply |-> NoReply,
                     response |-> begun.response,
                     overlapped |-> FALSE]]
    /\ UNCHANGED config
    /\ UNCHANGED rVars
    /\ UNCHANGED fVars
    /\ UNCHANGED cVars

\* The variables of a handler kept in one place for all its invocations:
\* a continuation sees those of the earliest slot that waits for the same
\* method.
locals_Shared(invocations, i) ==
    LET same == {j \in DOMAIN invocations :
                    /\ invocations[j].pc = "awaiting"
                    /\ invocations[j].calls[1].method = invocations[i].calls[1].method}
    IN  invocations[CHOOSE j \in same : \A k \in same : j <= k]

\* The variables of invocation i as its continuation sees them: the
\* parameters and constants of the async function are its own.
locals(invocations, i) == invocations[i]

\* A continuation that starts the operation again when it has failed.
Resumed_Retry(i, reply, response) ==
    /\ slots' = [slots EXCEPT ![i] =
                    IF \/ Len(@.calls) > 1
                       \/ @.calls[1].method = "runPublishCommand"
                       \/ reply.success
                    THEN [@ EXCEPT !.pc = "done", !.reply = reply, !.response = response]
                    ELSE [@ EXCEPT !.calls = Append(@, slots[i].calls[1])]]
    /\ UNCHANGED config
    /\ UNCHANGED rVars
    /\ UNCHANGED fVars
    /\ UNCHANGED cVars

\* The awaited operation of invocation i settles with reply and the
\* continuation runs to the end of the handler.
Resumed(i, reply, response) ==
    /\ slots' = [slots EXCEPT ![i] =
                    [@ EXCEPT !.pc = "done", !.reply = reply, !.response = response,
                              !.overlapped = \E j \in DOMAIN slots :
                                                 j # i /\ slots[j].pc = "awaiting"]]
    /\ UNCHANGED config
    /\ UNCHANGED rVars
    /\ UNCHANGED fVars
    /\ UNCHANGED cVars

CallTool ==
    \E i \in 1 .. MaxInFlight, request \in ToolRequests :
        /\ slots[i].pc = "idle"
        /\ Begun(i, request, callToolBegin(config, request))

CallToolResume ==
    \E i \in 1 .. MaxInFlight :
        /\ slots[i].pc = "awaiting"
        /\ slots[i].request.kind = "callTool"
        /\ \E reply \in Replies(slots[i].calls[1]) :
              Resumed(i, reply, callToolEnd(locals(slots, i).request, reply))

ReadResource ==
    \E i \in 1 .. MaxInFlight, request \in ResourceRequests :
        /\ slots[i].pc = "idle"
        /\ Begun(i, request, readResourceBegin(config, request))

ReadResourceResume ==
    \E i \in 1 .. MaxInFlight :
        /\ slots[i].pc = "awaiting"
        /\ slots[i].request.kind = "readResource"
        /\ \E reply \in Replies(slots[i].calls[1]) :
              Resumed(i, reply, readResourceEnd(locals(slots, i).request, reply))

ListTools ==
    \E i \in 1 .. MaxInFlight :
        /\ slots[i].pc = "idle"
        /\ Begun(i, HostRequest("listTools", "", NoArguments, NoUri),
                 Responded(Return([tools |-> listTools(config.defaultDatabase)])))

ListResources ==
    \E i \in 1 .. MaxInFlight :
        /\ slots[i].pc = "idle"
        /\ Begun(i, HostRequest("listResources", "", NoArguments, NoUri),
                 Responded(listResources))

\* The host has taken the completion of invocation i.
Deliver ==
    \E i \in 1 .. MaxInFlight :
        /\ slots[i].pc = "done"
        /\ slots' = [slots EXCEPT ![i] = IdleSlot]
        /\ UNCHANGED config
        /\ UNCHANGED rVars
        /\ UNCHANGED fVars
        /\ UNCHANGED cVars

NextServer ==
    \/ CallTool
    \/ CallToolResume
    \/ ReadResource
    \/ ReadResourceResume
    \/ ListTools
    \/ ListResources
    \/ Deliver

SpecServer == InitServer /\ [][NextServer]_vars

----------------------------------------------------------------------------
(* Claims about the remote operations, checked under Spec.  A claim reads  *)
(* the call that has just completed: op, what the request delivered        *)
(* (transport) and what the method completed with (result).                *)

Answered == pc = "done" /\ transport.kind = "response"

Faulted == pc = "done" /\ transport.kind = "fault"

\* The text given by its parts contains the text s.
Embeds(parts, s) == s = "" \/ \E i \in 1 .. Len(parts) : parts[i] = s

\* The log-fetch special case: a 404 of the logs endpoint.
LogsNotFound == op = "getLogs" /\ transport.status = 404

Succeeded == result.ok /\ result.val.success

FailedEmbeddingStatus ==
    /\ result.ok
    /\ ~result.val.success
    /\ Embeds(result.val.error, ToString(transport.status))

EmbedsBody == Embeds(result.val.error, transport.data.raw)

\* The entries a log payload decodes to: the lines that are JSON values
\* other than null.
DecodedEntries(log) ==
    IF log.form = "other" THEN {}
    ELSE {i \in 1 .. Len(log.lines) : log.lines[i].kind = "entry"}

\* Every decoded entry carries a ts that makes a valid date (a number, of
\* the values drawn).
TimestampsValid(log) ==
    \A i \in DecodedEntries(log) : log.lines[i].tsKind = "number"

\* C1, as stated: every operation answers a 200 with {success: true, data}
\* and every other status, the 404 of the log fetch apart, with
\* {success: false, error} whose error embeds the status code and the raw
\* response body.
C1_UniformContract ==
    Answered =>
        IF transport.status = 200 THEN Succeeded
        ELSE LogsNotFound \/ (FailedEmbeddingStatus /\ EmbedsBody)

\* C1, amended: a 200 is answered with {success: true, data} by every
\* operation but getLogs, which answers so exactly when the ts of every
\* decoded entry makes a valid date and otherwise with the failure
\* "Failed to fetch logs: Invalid time value"; every other status, the 404
\* of the log fetch apart, is answered with {success: false, error} whose
\* error embeds the status code, and the raw response body as well for every
\* operation but testConnection, whose error is exactly
\* "Server returned status <status>".
C1_RelayContract ==
    Answered =>
        IF transport.status = 200
        THEN IF op = "getLogs" /\ ~TimestampsValid(transport.data.log)
             THEN /\ result.ok
                  /\ ~result.val.success
                  /\ result.val.error = <<"Failed to fetch logs: ", "Invalid time value">>
             ELSE Succeeded
        ELSE \/ LogsNotFound
             \/ /\ FailedEmbeddingStatus
                /\ IF op = "testConnection"
                   THEN result.val.error
                            = <<"Server returned status ", ToString(transport.status)>>
                   ELSE EmbedsBody

\* testConnection has answered a 500 that carries a body, and the error
\* names the status alone.
C1_Witness ==
    /\ Answered
    /\ op = "testConnection"
    /\ transport.status = 500
    /\ transport.data.raw = "{\"error\":\"oops\"}"
    /\ result.val.error = <<"Server returned status ", "500">>
    /\ ~EmbedsBody

\* The message each method puts before the fault's own message.
FaultPrefix(o) ==
    CASE o = "testConnection" -> "Connection failed: "
      [] o = "getSchema" -> "Failed to get schema: "
      [] o = "runSql" -> "SQL query failed: "
      [] o = "callReducer" -> "Reducer call failed: "
      [] o = "getLogs" -> "Failed to fetch logs: "
      [] o = "describeDatabase" -> "Failed to describe database: "
      [] o = "getDatabaseIdentity" -> "Failed to get database identity: "
      [] o = "deleteDatabase" -> "Failed to delete database: "
      [] o = "listDatabases" -> "Failed to list databases: "
      [] o = "addDatabaseAlias" -> "Failed to add database alias: "
      [] o = "getDatabaseAliases" -> "Failed to get database aliases: "
      [] OTHER -> ""

\* C2: no operation raises.  Whatever the request delivers (any status, any
\* body, a thrown fault) the call completes with a ToolResult, and a thrown
\* fault yields {success: false, error} whose error is the operation's own
\* prefix followed by the fault's message ("Unknown error" when the thrown
\* value is not an Error).
C2_NoOperationRaises ==
    pc = "done" =>
        /\ result.ok
        /\ result.val.success \in BOOLEAN
        /\ Faulted =>
              /\ ~result.val.success
              /\ result.val.error
                     = <<FaultPrefix(op),
                         IF transport.fault = NonError THEN "Unknown error"
                         ELSE transport.fault>>
              /\ \A o \in Operations \ {op} : FaultPrefix(o) # FaultPrefix(op)

\* The log fetch was refused at the socket and completed with its own message.
C2_Witness ==
    /\ Faulted
    /\ op = "getLogs"
    /\ transport.fault = "connect ECONNREFUSED 127.0.0.1:3000"
    /\ result.ok
    /\ result.val.error = <<"Failed to fetch logs: ", "connect ECONNREFUSED 127.0.0.1:3000">>

\* The schema of the last answer passes the validation of formatSchema but
\* cannot be rendered: resolving it reads a field that is not there.
SchemaFaults ==
    /\ Answered
    /\ op = "getSchema"
    /\ transport.status = 200
    /\ ~transport.data.schema.nullish
    /\ transport.data.schema.hasTables
    /\ transport.data.schema.hasReducers
    /\ transport.data.schema.hasTypespace
    /\ ~formatSchemaTry(transport.data.schema).ok

\* C4: formatSchema never propagates a fault.  getSchema on a 200 always
\* returns success: true with a string as data, and when resolving or
\* rendering the schema faults that string is the explanatory message
\* followed by the serialized raw schema.
C4_FormatFaultsCaught ==
    (Answered /\ op = "getSchema" /\ transport.status = 200) =>
        /\ Succeeded
        /\ result.val.data.kind = "string"
        /\ SchemaFaults =>
              /\ Len(result.val.data.text.lines) = 3
              /\ result.val.data.text.lines[1][1] = "Error formatting schema: "
              /\ result.val.data.text.lines[1][2]
                     = formatSchemaTry(transport.data.schema).err
              /\ result.val.data.text.lines[2] = <<>>
              /\ result.val.data.text.lines[3] = <<"Raw: ">>
              /\ result.val.data.text.raw = <<transport.data.schema>>

\* A schema without `types` that has a table was fetched, and the answer is
\* the error block.
C4_Witness ==
    /\ SchemaFaults
    /\ Len(transport.data.schema.tables) = 1
    /\ Succeeded
    /\ result.val.data.text.lines[1][1] = "Error formatting schema: "
    /\ result.val.data.text.raw = <<transport.data.schema>>

\* getLogs has answered a 200.
LogsAnswered == Answered /\ op = "getLogs" /\ transport.status = 200

\* The lines of a log payload that parse as JSON, in their order: every
\* element of an array and the single object do, and of a text the lines
\* that are neither blank nor garbage.
JsonLines(log) ==
    IF log.form = "other" THEN <<>>
    ELSE SelectSeq(log.lines, LAMBDA line : line.kind \in {"entry", "null"})

\* The output line stands for the payload line: it has the eight parts of
\* a formatted entry, with the target and the message of the line.
StandsFor(out, line) ==
    /\ Len(out) = 8
    /\ out[6] = line.target
    /\ out[8] = line.message

NoLogsAvailable ==
    /\ Succeeded
    /\ result.val.data = StringData(Text(<< <<"No logs available">> >>, <<>>))

\* C13, as stated: for a 200 log payload the output lines correspond one to
\* one, in order, to the payload lines that parse as JSON, and a payload
\* that is empty, not text/array/object or entirely unparseable yields the
\* data "No logs available" with success: true.
C13_LogLinesKept ==
    LogsAnswered =>
        LET json == JsonLines(transport.data.log)
        IN  IF json = <<>> THEN NoLogsAvailable
            ELSE /\ Succeeded
                 /\ result.val.data.kind = "string"
                 /\ Len(result.val.data.text.lines) = Len(json)
                 /\ \A k \in 1 .. Len(json) :
                        StandsFor(result.val.data.text.lines[k], json[k])

\* A text of one line that is valid JSON but has no ts was answered with a
\* failure instead of one output line.
C13_Witness ==
    /\ LogsAnswered
    /\ transport.data.log = LogData("text", <<LogEntry("WARN", "missing", 0, "db", "slow query")>>)
    /\ result = Return(Failure(<<"Failed to fetch logs: ", "Invalid time value">>))

\* The entry matches the expected shape in full: it has a numeric ts.
WellFormed(line) == line.kind = "entry" /\ line.tsKind = "number"

\* C14, as stated: a 200 log payload that holds at least one well-formed
\* entry, whatever lines that are not JSON or lack expected fields come with
\* it, is answered with success: true and every well-formed entry is in the
\* output.
C14_BatchSurvives ==
    (LogsAnswered /\ transport.data.log.form # "other"
                  /\ \E i \in DOMAIN transport.data.log.lines :
                         WellFormed(transport.data.log.lines[i])) =>
        /\ Succeeded
        /\ \A i \in DOMAIN transport.data.log.lines :
               WellFormed(transport.data.log.lines[i]) =>
                   \E k \in DOMAIN result.val.data.text.lines :
                       StandsFor(result.val.data.text.lines[k], transport.data.log.lines[i])

\* A well-formed entry followed by an entry without ts: the whole batch was
\* answered with a failure and no data.
C14_Witness ==
    /\ LogsAnswered
    /\ transport.data.log.form = "array"
    /\ Len(transport.data.log.lines) = 2
    /\ WellFormed(transport.data.log.lines[1])
    /\ transport.data.log.lines[2].kind = "entry"
    /\ transport.data.log.lines[2].tsKind = "missing"
    /\ result.ok
    /\ ~result.val.success
    /\ result.val.data = NoData
    /\ result.val.error = <<"Failed to fetch logs: ", "Invalid time value">>

\* C25: getLogs answers a 404 with {success: false} and the error
\* `Database "<database>" not found`, not with the generic `HTTP 404: ...`
\* message, and decodes nothing of the body.
C25_LogsNotFoundMessage ==
    (Answered /\ LogsNotFound) =>
        /\ result.ok
        /\ result.val = Failure(<<"Database \"", database, "\" not found">>)
        /\ ~Embeds(result.val.error, "HTTP ")
        /\ ~Embeds(result.val.error, "404")

\* A 404 whose body is a log line that would decode.
C25_Witness ==
    /\ Answered
    /\ LogsNotFound
    /\ DecodedEntries(transport.data.log) # {}
    /\ ~result.val.success

\* The entries a log payload decodes to, in their order.
DecodedInOrder(log) ==
    IF log.form = "other" THEN <<>>
    ELSE SelectSeq(log.lines, LAMBDA line : line.kind = "entry")

\* The level in upper case, with spaces after it up to five characters.
PaddedLevel(level) ==
    LET upper == toUpperCase(level)
    IN  upper \o SubSeq("     ", 1, IF Len(upper) < 5 THEN 5 - Len(upper) ELSE 0)

\* The instant ts microseconds after the epoch, in whole milliseconds.
Millis(ts) == IF ts >= 0 THEN ts \div 1000 ELSE -((-ts) \div 1000)

ExpectedLogLine(entry) ==
    <<"[", "ISO:" \o ToString(Millis(entry.ts)), "] ", PaddedLevel(entry.level), " ",
      entry.target, " - ", entry.message>>

\* C26, as stated: every entry a 200 log payload decodes to becomes one
\* output line `[<timestamp>] <LEVEL> <target> - <message>`, in order, the
\* timestamp being ts / 1000 as milliseconds since the epoch and the level
\* upper-cased and padded with spaces to at least five characters; the text
\* is these lines and nothing else.
C26_LogLineFormat ==
    (LogsAnswered /\ DecodedInOrder(transport.data.log) # <<>>) =>
        /\ Succeeded
        /\ result.val.data.kind = "string"
        /\ result.val.data.text.raw = <<>>
        /\ result.val.data.text.lines =
               [k \in DOMAIN DecodedInOrder(transport.data.log) |->
                    ExpectedLogLine(DecodedInOrder(transport.data.log)[k])]

\* A payload that is one object with a level, a target and a message but
\* no ts: the entry was decoded and no line came out.
C26_Witness ==
    /\ LogsAnswered
    /\ transport.data.log.form = "object"
    /\ DecodedInOrder(transport.data.log) = <<LogEntry("WARN", "missing", 0, "db", "slow query")>>
    /\ result.ok
    /\ ~result.val.success

----------------------------------------------------------------------------
(* Claims about the schema formatter, checked under SpecFormat.  The       *)
(* output is read back line by line, as a reader of the text would.        *)

FormatLines == fOut.val.lines

PassesValidation ==
    /\ fPc = "done"
    /\ ~fSchema.nullish
    /\ fSchema.hasTables /\ fSchema.hasReducers /\ fSchema.hasTypespace

IsReport ==
    /\ fPc = "done" /\ fOut.ok
    /\ Len(FormatLines) >= 1 /\ FormatLines[1] = <<"Database Schema">>

IsErrorBlock ==
    /\ fPc = "done" /\ fOut.ok
    /\ Len(FormatLines) = 3
    /\ Len(FormatLines[1]) = 2 /\ FormatLines[1][1] = "Error formatting schema: "
    /\ FormatLines[2] = <<>>
    /\ FormatLines[3] = <<"Raw: ">>
    /\ fOut.val.raw = <<fSchema>>

TablesHeaders ==
    {i \in DOMAIN FormatLines :
        /\ Len(FormatLines[i]) = 3
        /\ FormatLines[i][1] = "TABLES (" /\ FormatLines[i][3] = "):"}

ReducersHeaders ==
    {i \in DOMAIN FormatLines :
        /\ Len(FormatLines[i]) = 3
        /\ FormatLines[i][1] = "REDUCERS (" /\ FormatLines[i][3] = "):"}

\* The entries rendered strictly between lines lo and hi: their bullet lines.
EntriesBetween(lo, hi) ==
    {i \in (lo + 1) .. (hi - 1) :
        Len(FormatLines[i]) >= 2 /\ FormatLines[i][1] = Bullet}

NoneBetween(lo, hi) ==
    \E i \in (lo + 1) .. (hi - 1) : FormatLines[i] = <<"  (none)">>

HeadersCountEntries ==
    /\ fOut.ok
    /\ Cardinality(TablesHeaders) = 1
    /\ Cardinality(ReducersHeaders) = 1
    /\ LET t == CHOOSE i \in TablesHeaders : TRUE
           r == CHOOSE i \in ReducersHeaders : TRUE
           end == Len(FormatLines) + 1
       IN  /\ t < r
           /\ FormatLines[t][2] = ToString(Cardinality(EntriesBetween(t, r)))
           /\ FormatLines[r][2] = ToString(Cardinality(EntriesBetween(r, end)))
           /\ NoneBetween(t, r) <=> Cardinality(EntriesBetween(t, r)) = 0
           /\ NoneBetween(r, end) <=> Cardinality(EntriesBetween(r, end)) = 0

\* C3 as stated: for every schema that passes the top-level validation the
\* output has the headers TABLES (<n>): and REDUCERS (<n>): with <n> the
\* number of entries rendered in the section, and (none) appears in a
\* section exactly when its count is 0.
C3_HeadersAfterValidation == PassesValidation => HeadersCountEntries

\* C3 as amended: the same, for every schema that passes the top-level
\* validation and is rendered without a fault; a schema whose resolution
\* faults is answered with the error block, which has neither header.
C3_HeadersOfReport ==
    PassesValidation =>
        IF IsErrorBlock
        THEN TablesHeaders = {} /\ ReducersHeaders = {}
        ELSE HeadersCountEntries

\* Two tables came in, one was skipped, and the header counts the one
\* rendered; the empty reducers section says (none).
C3_Witness ==
    /\ PassesValidation /\ IsReport
    /\ Len(fSchema.tables) = 2
    /\ fSchema.reducers = <<>>
    /\ FormatLines[4] = <<"TABLES (", "1", "):">>
    /\ FormatLines[Len(FormatLines)] = <<"  (none)">>

\* The table's product_type_ref indexes an entry of the type table whose
\* typespace body exists and is a Product.
LinkedToProduct(table) ==
    /\ fSchema.hasTypes
    /\ table.product_type_ref \in 0 .. (Len(fSchema.types) - 1)
    /\ LET ty == fSchema.types[table.product_type_ref + 1].ty
       IN  /\ ty \in 0 .. (Len(fSchema.typespace.types) - 1)
           /\ fSchema.typespace.types[ty + 1].kind = "Product"

FieldsOf(table) ==
    fSchema.typespace.types[fSchema.types[table.product_type_ref + 1].ty + 1].elements

ExpectedFieldLine(element) ==
    <<"    ",
      IF element.name.has THEN element.name.some ELSE "(unnamed)",
      ": ",
      resolveType(fSchema, element.algebraic_type).val>>

RECURSIVE ExpectedTableLines(_)
ExpectedTableLines(i) ==
    IF i > Len(fSchema.tables) THEN <<>>
    ELSE (IF LinkedToProduct(fSchema.tables[i])
          THEN << <<>>, <<Bullet, fSchema.tables[i].name>> >>
                  \o [k \in 1 .. Len(FieldsOf(fSchema.tables[i])) |->
                          ExpectedFieldLine(FieldsOf(fSchema.tables[i])[k])]
          ELSE <<>>)
         \o ExpectedTableLines(i + 1)

\* The lines between the TABLES header and the blank line that closes the
\* section.
TablesSection ==
    LET t == CHOOSE i \in TablesHeaders : TRUE
        r == CHOOSE i \in ReducersHeaders : TRUE
    IN  SubSeq(FormatLines, t + 1, r - 2)

TablesRenderedAsLinked ==
    /\ IsReport
    /\ TablesHeaders # {} /\ ReducersHeaders # {}
    /\ TablesSection = (IF ExpectedTableLines(1) = <<>>
                        THEN << <<"  (none)">> >>
                        ELSE ExpectedTableLines(1))

ReducersSection ==
    LET r == CHOOSE i \in ReducersHeaders : TRUE
    IN  SubSeq(FormatLines, r + 1, Len(FormatLines))

\* Lines taken by reducer k: a blank line, its bullet line, and its
\* parameter lines or the single (no parameters) line.
ReducerBlockLen(k) ==
    2 + (IF Len(fSchema.reducers[k].params.elements) = 0
         THEN 1 ELSE Len(fSchema.reducers[k].params.elements))

RECURSIVE ReducerBlockStart(_)
ReducerBlockStart(k) ==
    IF k = 1 THEN 1 ELSE ReducerBlockStart(k - 1) + ReducerBlockLen(k - 1)

ReducerRendered(k) ==
    LET start == ReducerBlockStart(k)
        params == fSchema.reducers[k].params.elements
        section == ReducersSection
    IN  /\ Len(section) >= start + ReducerBlockLen(k) - 1
        /\ section[start] = <<>>
        /\ Len(section[start + 1]) >= 2
        /\ SubSeq(section[start + 1], 1, 2) = <<Bullet, fSchema.reducers[k].name>>
        /\ IF Len(params) = 0
           THEN section[start + 2] = <<"    (no parameters)">>
           ELSE \A j \in 1 .. Len(params) :
                    section[start + 1 + j] = ExpectedFieldLine(params[j])

\* C6: in the report format renders, every input reducer is rendered, in
\* input order, none skipped: a reducer without parameters by the single
\* line (no parameters), a reducer with N > 0 parameters by N parameter
\* lines in declaration order, an unnamed parameter as (unnamed).
C6_ReducersNeverSkipped ==
    (IsReport /\ fSchema.reducers # <<>>) =>
        /\ ReducersHeaders # {}
        /\ \A k \in 1 .. Len(fSchema.reducers) : ReducerRendered(k)
        /\ Len(ReducersSection) =
              ReducerBlockStart(Len(fSchema.reducers)) + ReducerBlockLen(Len(fSchema.reducers)) - 1

\* A reducer without parameters and then one with three, the second of
\* them unnamed, were both rendered, in that order.
C6_Witness ==
    /\ IsReport
    /\ Len(fSchema.reducers) = 2
    /\ Len(fSchema.reducers[1].params.elements) = 0
    /\ Len(fSchema.reducers[2].params.elements) = 3
    /\ ReducersSection =
          << <<>>,
             <<Bullet, "reducer1">>,
             <<"    (no parameters)">>,
             <<>>,
             <<Bullet, "reducer2", " [", "OnConnect", "]">>,
             <<"    ", "tags", ": ", "Array<Option<Ref(9)>>">>,
             <<"    ", "(unnamed)", ": ", "Unknown">>,
             <<"    ", "n", ": ", "U8">> >>

\* The answer to a schema that fails the top-level validation.
InvalidLiteral == Text(<< <<"Invalid or empty schema">> >>, <<>>)

\* The schema is null or undefined, or lacks tables, reducers or typespace.
LacksTopLevelField ==
    \/ fSchema.nullish
    \/ ~fSchema.hasTables
    \/ ~fSchema.hasReducers
    \/ ~fSchema.hasTypespace

\* C11: format answers exactly "Invalid or empty schema" to a schema that is
\* null or undefined or in which tables, reducers or typespace is missing,
\* whatever else the schema holds, and never answers a schema that has all
\* three (even as empty lists) with that literal.
C11_InvalidSchemaLiteral ==
    fPc = "done" => (fOut = Return(InvalidLiteral) <=> LacksTopLevelField)

\* A schema with two tables but neither typespace nor type table was
\* answered with the literal, although resolving its tables would fault.
C11_Witness ==
    /\ fPc = "done"
    /\ ~fSchema.nullish
    /\ Len(fSchema.tables) = 2
    /\ fSchema.hasReducers
    /\ ~fSchema.hasTypespace
    /\ ~fSchema.hasTypes
    /\ fOut = Return(InvalidLiteral)

\* The bullet line that opens the block of reducer k in the report.
ReducerBulletLine(k) == ReducersSection[ReducerBlockStart(k) + 1]

\* The lifecycle value of reducer k carries an active tag: `some` holds an
\* object with at least one key.
HasActiveTag(k) ==
    fSchema.reducers[k].lifecycle.hasSome /\ Len(fSchema.reducers[k].lifecycle.keys) > 0

\* C12: in the report, a reducer whose lifecycle carries an active tag is
\* rendered as `<name> [<Tag>]` with <Tag> the first key of the lifecycle
\* value and no other tag, and a reducer whose lifecycle is none or an empty
\* object is rendered as `<name>` with no bracket.
C12_LifecycleTag ==
    IsReport =>
        \A k \in 1 .. Len(fSchema.reducers) :
            ReducerBulletLine(k) =
                IF HasActiveTag(k)
                THEN <<Bullet, fSchema.reducers[k].name, " [",
                       fSchema.reducers[k].lifecycle.keys[1], "]">>
                ELSE <<Bullet, fSchema.reducers[k].name>>

\* A reducer with the keys OnConnect and Init was rendered with OnConnect
\* alone, after a reducer whose lifecycle holds an empty object.
C12_Witness ==
    /\ IsReport
    /\ Len(fSchema.reducers) = 2
    /\ fSchema.reducers[1].lifecycle = [hasSome |-> TRUE, keys |-> <<>>]
    /\ fSchema.reducers[2].lifecycle.keys = <<"OnConnect", "Init">>
    /\ ReducerBulletLine(1) = <<Bullet, "reducer1">>
    /\ ReducerBulletLine(2) = <<Bullet, "reducer2", " [", "OnConnect", "]">>

----------------------------------------------------------------------------
(* Claims about the type resolver, checked under SpecResolve.              *)

RefResolved == rPc = "done" /\ Len(rType) >= 1 /\ rType[1].key = "Ref"

RefEntryExists == rPc = "done" /\ rType[1].ref >= 0 /\ rType[1].ref < Len(rSchema.types)

RefLabel == "Ref(" \o ToString(rType[1].ref) \o ")"

\* C7 as stated: resolve(Ref(i)) is the declared name of type-table entry i
\* when that entry exists and the literal Ref(i) otherwise, for every
\* integer i, and resolving a Ref never raises.
C7_RefNeverRaises ==
    RefResolved =>
        /\ rOut.ok
        /\ (RefEntryExists /\ rSchema.types[rType[1].ref + 1].hasName)
              => rOut.val = rSchema.types[rType[1].ref + 1].name
        /\ ~RefEntryExists => rOut.val = RefLabel

\* C7 as amended: when the schema has a type table, resolve(Ref(i)) returns
\* without raising the declared name of entry i if that entry exists and
\* has a declared name, and the literal Ref(i) otherwise (negative and
\* out-of-range i included); when the schema has no type table, resolving a
\* Ref raises.
C7_RefAgainstTypeTable ==
    RefResolved =>
        IF rSchema.hasTypes
        THEN rOut = Return(IF RefEntryExists /\ rSchema.types[rType[1].ref + 1].hasName
                           THEN rSchema.types[rType[1].ref + 1].name
                           ELSE RefLabel)
        ELSE ~rOut.ok

\* A negative index into a non-empty type table came back as its label.
C7_Witness ==
    /\ RefResolved
    /\ rSchema.hasTypes /\ Len(rSchema.types) = 2
    /\ rType = RefTo(-1)
    /\ rOut = Return("Ref(-1)")

\* C8: resolve(Array(T)) is "Array<" + resolve(T) + ">" and resolve(Option(T))
\* is "Option<" + resolve(T) + ">", at every nesting depth (a fault raised
\* by resolve(T) is the fault of the wrapper).
C8_WrappersCompose ==
    (rPc = "done" /\ Len(rType) >= 1 /\ rType[1].key \in {"Array", "Option"}) =>
        LET inner == resolveType(rSchema, rType[1].inner)
            open == IF rType[1].key = "Array" THEN "Array<" ELSE "Option<"
        IN  IF inner.ok
            THEN rOut = Return(open \o inner.val \o ">")
            ELSE ~rOut.ok

\* Two wrappers around a reference were rendered from the inside out.
C8_Witness ==
    /\ rPc = "done"
    /\ rType = ArrayOf(OptionOf(RefTo(1)))
    /\ rSchema.types = <<UserDef, ProfileDef>>
    /\ rOut = Return("Array<Option<Profile>>")

\* C9: a Product resolves to "Identity" exactly when it has one field and
\* that field is named __identity__, whatever the field's type; any other
\* Product resolves to "Product"; every Sum resolves to "Enum".
C9_StructuralTypesOpaque ==
    /\ (rPc = "done" /\ Len(rType) >= 1 /\ rType[1].key = "Product") =>
          rOut = Return(IF /\ Len(rType[1].elements) = 1
                           /\ rType[1].elements[1].name = Some("__identity__")
                        THEN "Identity" ELSE "Product")
    /\ (rPc = "done" /\ Len(rType) >= 1 /\ rType[1].key = "Sum") =>
          rOut = Return("Enum")

\* A two-field product starting with the sentinel stayed a plain Product.
C9_Witness ==
    /\ rPc = "done"
    /\ rType = ProductOf(<<IdentityField, IdField>>)
    /\ rOut = Return("Product")

ComplexTags == {"Array", "Ref", "Product", "Sum", "Option"}

\* C10: a value whose (first) tag is one of the 15 primitive tags or an
\* unrecognized tag resolves to the tag itself, a value with no tag resolves
\* to "Unknown", and a value with several keys resolves as its first key
\* alone does.
C10_LeafTags ==
    /\ Cardinality(primitives) = 15
    /\ (rPc = "done" /\ Len(rType) = 0) => rOut = Return("Unknown")
    /\ (rPc = "done" /\ Len(rType) >= 1 /\ rType[1].key \notin ComplexTags) =>
          rOut = Return(rType[1].key)
    /\ (rPc = "done" /\ Len(rType) > 1) =>
          rOut = resolveType(rSchema, <<rType[1]>>)

\* An unrecognized first tag won over a primitive second key.
C10_Witness ==
    /\ rPc = "done"
    /\ rType = <<Tag("Custom"), Tag("U8")>>
    /\ rOut = Return("Custom")

\* The schema with the bodies of its typespace taken away.
WithoutBodies(schema) == [schema EXCEPT !.typespace = [types |-> <<>>]]

\* The type table of the schema is cyclic through its bodies.
CyclicTable(schema) ==
    \E b \in DOMAIN schema.typespace.types :
        \E e \in DOMAIN schema.typespace.types[b].elements :
            schema.typespace.types[b].elements[e].algebraic_type[1].key = "Ref"

\* C27: over a schema that has a type table, cyclic ones included, resolve
\* returns a string for every type value and raises nothing, and what it
\* returns does not depend on the bodies the table's entries name: a Ref
\* is one lookup of the entry's name and the body is never entered.
C27_ResolveTotalOnCycles ==
    (rPc = "done" /\ rSchema.hasTypes) =>
        /\ rOut.ok
        /\ rOut.val \in STRING
        /\ rOut = resolveType(WithoutBodies(rSchema), rType)

\* A reference to the entry whose body refers to itself, inside a wrapper.
C27_Witness ==
    /\ rPc = "done"
    /\ CyclicTable(rSchema)
    /\ rType = ArrayOf(RefTo(0))
    /\ rOut = Return("Array<Node>")

----------------------------------------------------------------------------
(* Claims about the handlers, checked under SpecServer.  A claim reads the *)
(* slots: the request of an invocation, the outbound operations it has     *)
(* started and its completion.                                             *)

Slots == 1 .. MaxInFlight

\* Invocation i is a callTool that has run (to its await or to its end).
ToolInvoked(i) == slots[i].pc # "idle" /\ slots[i].request.kind = "callTool"

\* The entries of the tool list, under the configuration in force, that
\* bear the name the request of invocation i asks for.
DeclaredTools(i) ==
    {k \in DOMAIN listTools(config.defaultDatabase) :
        listTools(config.defaultDatabase)[k].name = slots[i].request.name}

\* The request of invocation i leaves out a parameter its tool requires.
OmitsRequired(i) ==
    \E k \in DeclaredTools(i) :
        \E p \in DOMAIN listTools(config.defaultDatabase)[k].required :
            slots[i].request.arguments[listTools(config.defaultDatabase)[k].required[p]]
                = Undefined

\* Invocation i has ended with an error response and has started nothing.
RefusedUnstarted(i) ==
    /\ slots[i].pc = "done"
    /\ slots[i].response.ok
    /\ slots[i].response.val.isError
    /\ slots[i].calls = <<>>

\* C15, as stated: a callTool request that omits a parameter of the tool's
\* declared required list is answered with an error response and starts no
\* remote call and no subprocess.
C15_RequiredReported ==
    \A i \in Slots : (ToolInvoked(i) /\ OmitsRequired(i)) => RefusedUnstarted(i)

\* call_reducer was called without `args`, which its required list names,
\* and the reducer was called with an empty argument list.
C15_Witness ==
    \E i \in Slots :
        /\ ToolInvoked(i)
        /\ slots[i].request.name = "call_reducer"
        /\ slots[i].request.arguments.args = Undefined
        /\ OmitsRequired(i)
        /\ slots[i].calls = <<Call("callReducer", "reqdb", <<"CreateUser", "[]">>, "")>>

\* The request of invocation i brings no database and none is configured.
NoDatabaseAtAll(i) ==
    /\ slots[i].request.arguments.database \in {Undefined, ""}
    /\ config.defaultDatabase = ""

OtherRequired(tool) == SelectSeq(tool.required, LAMBDA p : p # "database")

Declares(tool, p) == \E k \in DOMAIN tool.properties : tool.properties[k] = p

Requires(tool, p) == \E k \in DOMAIN tool.required : tool.required[k] = p

\* C17: in the list listTools returns, a tool that declares a `database`
\* property requires it exactly when no default database is configured,
\* and the rest of every tool's required list is what it is under the
\* other configuration.
C17_DatabaseRequiredIffNoDefault ==
    \A i \in Slots :
        (slots[i].pc = "done" /\ slots[i].request.kind = "listTools") =>
            LET tools == slots[i].response.val.tools
            IN  /\ slots[i].response.ok
                /\ \A d \in {"", "maindb"} : Len(listTools(d)) = Len(tools)
                /\ \A k \in DOMAIN tools :
                      /\ Declares(tools[k], "database") =>
                            (Requires(tools[k], "database") <=> config.defaultDatabase = "")
                      /\ ~Declares(tools[k], "database") => ~Requires(tools[k], "database")
                      /\ \A d \in {"", "maindb"} :
                            /\ listTools(d)[k].name = tools[k].name
                            /\ OtherRequired(listTools(d)[k]) = OtherRequired(tools[k])

\* The tools were listed without a default database: sql_query requires
\* database and query, list_databases only its identity.
C17_Witness ==
    \E i \in Slots :
        /\ slots[i].pc = "done"
        /\ slots[i].request.kind = "listTools"
        /\ config.defaultDatabase = ""
        /\ slots[i].response.val.tools[3].name = "sql_query"
        /\ slots[i].response.val.tools[3].required = <<"database", "query">>
        /\ slots[i].response.val.tools[8].required = <<"identity">>

\* The outbound operation of invocation i came back as a failure: the
\* publish command was rejected, or the client resolved with success: false.
ReplyFailed(i) ==
    /\ slots[i].pc = "done"
    /\ slots[i].calls # <<>>
    /\ IF slots[i].calls[1].method = "runPublishCommand"
       THEN ~slots[i].reply.resolved
       ELSE ~slots[i].reply.success

\* The completion of invocation i reports the failure of its operation.
FailureSurfaced(i) ==
    /\ slots[i].response.ok
    /\ IF slots[i].request.kind = "readResource"
       THEN slots[i].response.val.text.lines = << <<"Error: ">> \o slots[i].reply.error >>
       ELSE /\ slots[i].response.val.isError
            /\ IF slots[i].calls[1].method = "runPublishCommand"
               THEN slots[i].response.val.text.lines[1][1] = "Error: Publish failed. "
               ELSE slots[i].response.val.text.lines
                        = << <<"Error: ">> \o slots[i].reply.error >>

\* C18: an invocation of callTool or readResource starts at most one
\* outbound operation (for publish_database the publish command and no
\* client call, for everything else no publish command) and never starts
\* it again: when the operation fails, the invocation ends with the failure
\* reported and that one operation started.
C18_OneOutboundNoRetry ==
    \A i \in Slots :
        /\ Len(slots[i].calls) <= 1
        /\ \A k \in DOMAIN slots[i].calls :
               slots[i].calls[k].method = "runPublishCommand"
                   <=> (slots[i].request.kind = "callTool"
                        /\ slots[i].request.name = "publish_database")
        /\ ReplyFailed(i) => (Len(slots[i].calls) = 1 /\ FailureSurfaced(i))

\* get_schema failed with a 500 and the invocation ended with that error,
\* after one call.
C18_Witness ==
    \E i \in Slots :
        /\ ReplyFailed(i)
        /\ slots[i].request.name = "get_schema"
        /\ slots[i].calls = <<Call("getSchema", "reqdb", <<>>, "")>>
        /\ slots[i].response.val.isError
        /\ slots[i].response.val.text.lines
               = << <<"Error: ", "HTTP ", "500", ": ", "{\"error\":\"fail\"}">> >>

\* What a request leads to before its await when its invocation is the only
\* one: the operation to wait for, or the completion.
AloneBegun(request) ==
    CASE request.kind = "callTool" -> callToolBegin(config, request)
      [] request.kind = "readResource" -> readResourceBegin(config, request)
      [] request.kind = "listTools" ->
             Responded(Return([tools |-> listTools(config.defaultDatabase)]))
      [] OTHER -> Responded(listResources)

AloneCalls(request) ==
    IF AloneBegun(request).await THEN <<AloneBegun(request).call>> ELSE <<>>

\* The completion of a request run alone, given what its operation came
\* back with.
AloneResponse(request, reply) ==
    IF ~AloneBegun(request).await THEN AloneBegun(request).response
    ELSE IF request.kind = "callTool" THEN callToolEnd(request, reply)
    ELSE readResourceEnd(request, reply)

InFlightAsAlone ==
    \A i \in Slots :
        /\ slots[i].pc = "awaiting" => slots[i].calls = AloneCalls(slots[i].request)
        /\ slots[i].pc = "done" =>
               /\ slots[i].calls = AloneCalls(slots[i].request)
               /\ slots[i].response = AloneResponse(slots[i].request, slots[i].reply)

\* C19: however the invocations in flight interleave at their awaits, each
\* one starts the operation and ends with the completion it has when run
\* alone with the same request and the same reply, and the configuration
\* is never written after construction.
C19_NoInterference == []InFlightAsAlone /\ [][config' = config]_vars

\* Two sql_query invocations waited for runSql at the same time; the one
\* without a format was resumed first and got the JSON of its rows, the other
\* then got its table.
C19_Witness ==
    \E i, j \in Slots :
        /\ i # j
        /\ slots[i].pc = "done" /\ slots[j].pc = "done"
        /\ slots[i].overlapped
        /\ slots[i].request.name = "sql_query" /\ slots[j].request.name = "sql_query"
        /\ slots[i].request.arguments.format = Undefined
        /\ slots[j].request.arguments.format = "markdown"
        /\ slots[i].reply.success /\ slots[i].reply.data.rows # <<>>
        /\ slots[j].reply = slots[i].reply
        /\ slots[i].response.ok /\ slots[j].response.ok
        /\ slots[i].response.val.text = Text(<<>>, <<Json(slots[i].reply.data, 2)>>)
        /\ Len(slots[j].response.val.text.lines) = 4

DatabaseScopedTools ==
    {"get_schema", "sql_query", "publish_database", "describe_database",
     "get_database_identity", "delete_database", "call_reducer", "get_logs"}

\* The database the request of invocation i names itself: the `database`
\* argument, or the host of the resource URI ("" when it names none).
RequestDatabase(i) ==
    IF slots[i].request.kind = "readResource" THEN slots[i].request.uri.hostname
    ELSE IF slots[i].request.arguments.database = Undefined THEN ""
    ELSE slots[i].request.arguments.database

\* The database the outbound operation of invocation i was started with.
UsedDatabase(i) ==
    IF slots[i].calls[1].method = "runPublishCommand" THEN slots[i].calls[1].args[2]
    ELSE slots[i].calls[1].target

\* C20: the outbound operation of a database-scoped tool or of readResource
\* uses the request's own database whenever that is non-empty and the
\* configured default only when the request gives none.
C20_RequestDatabaseFirst ==
    \A i \in Slots :
        (/\ slots[i].calls # <<>>
         /\ \/ slots[i].request.kind = "readResource"
            \/ slots[i].request.name \in DatabaseScopedTools) =>
            UsedDatabase(i) = IF RequestDatabase(i) # "" THEN RequestDatabase(i)
                              ELSE config.defaultDatabase

\* With the default maindb configured, get_logs for reqdb fetched the logs
\* of reqdb.
C20_Witness ==
    \E i \in Slots :
        /\ config.defaultDatabase = "maindb"
        /\ slots[i].request.name = "get_logs"
        /\ slots[i].request.arguments.database = "reqdb"
        /\ slots[i].calls = <<Call("getLogs", "reqdb", <<"50">>, "")>>

\* The publish command invocation i started.
PublishCall(i) == slots[i].calls[1]

PublishStarted(i) ==
    /\ slots[i].request.kind = "callTool"
    /\ slots[i].request.name = "publish_database"
    /\ slots[i].calls # <<>>

\* C21: publish_database runs `spacetime` with publish, the database,
\* --project-path, the project path and -y, then --server and the host
\* exactly when a host is configured, then --delete-data exactly when
\* clear_data is truthy, with the project path as working directory.
C21_PublishCommandLine ==
    \A i \in Slots :
        PublishStarted(i) =>
            /\ PublishCall(i).method = "runPublishCommand"
            /\ PublishCall(i).target = "spacetime"
            /\ PublishCall(i).cwd = slots[i].request.arguments.project_path
            /\ PublishCall(i).args =
                   <<"publish",
                     IF RequestDatabase(i) # "" THEN RequestDatabase(i)
                     ELSE config.defaultDatabase,
                     "--project-path",
                     slots[i].request.arguments.project_path, "-y">>
                   \o (IF config.host # "" THEN <<"--server", config.host>> ELSE <<>>)
                   \o (IF slots[i].request.arguments.clear_data \in {Undefined, False}
                       THEN <<>> ELSE <<"--delete-data">>)

\* With a host configured and clear_data true the command carries both
\* flags, --server first.
C21_Witness ==
    \E i \in Slots :
        /\ PublishStarted(i)
        /\ PublishCall(i).args =
               <<"publish", "reqdb", "--project-path", "/srv/module", "-y",
                 "--server", Host, "--delete-data">>
        /\ PublishCall(i).cwd = "/srv/module"

PublishEnded(i) == PublishStarted(i) /\ slots[i].pc = "done"

\* The streams of a publish outcome that hold something once trimmed.
Captured(streams) ==
    SelectSeq([k \in 1 .. Len(streams) |-> trim(streams[k])],
              LAMBDA text : text # Undefined /\ text # "")

\* Some line of the text has the part.
TextEmbeds(text, part) ==
    \E l \in DOMAIN text.lines : \E k \in DOMAIN text.lines[l] : text.lines[l][k] = part

\* C22: publish_database always ends with a response and never raises.
\* When the command succeeds the text is its trimmed standard output
\* followed by its trimmed standard error, one per line ("Publish command
\* completed." when both are empty), without isError; when it fails to
\* start or exits non-zero the response has isError and its text starts
\* with "Error: Publish failed. " and embeds what was captured of stdout,
\* stderr and the message.
C22_PublishAlwaysAnswers ==
    \A i \in Slots :
        PublishEnded(i) =>
            /\ slots[i].response.ok
            /\ IF slots[i].reply.resolved
               THEN /\ ~slots[i].response.val.isError
                    /\ slots[i].response.val.text.lines =
                           LET out == Captured(<<slots[i].reply.stdout, slots[i].reply.stderr>>)
                           IN  IF out = <<>> THEN << <<"Publish command completed.">> >>
                               ELSE [k \in 1 .. Len(out) |-> <<out[k]>>]
               ELSE /\ slots[i].response.val.isError
                    /\ slots[i].response.val.text.lines[1][1] = "Error: Publish failed. "
                    /\ LET got == Captured(<<slots[i].reply.stdout, slots[i].reply.stderr,
                                             slots[i].reply.message>>)
                       IN  \A k \in DOMAIN got : TextEmbeds(slots[i].response.val.text, got[k])

\* A command that exited non-zero after printing: the error response
\* carries stdout, stderr and the message.
C22_Witness ==
    \E i \in Slots :
        /\ PublishEnded(i)
        /\ ~slots[i].reply.resolved
        /\ slots[i].response.ok /\ slots[i].response.val.isError
        /\ slots[i].response.val.text.lines =
               << <<"Error: Publish failed. ", "Published.">>, <<"warning: unused">>,
                  <<"Command failed: spacetime publish">> >>

SqlEnded(i) ==
    /\ slots[i].request.kind = "callTool"
    /\ slots[i].request.name = "sql_query"
    /\ slots[i].calls # <<>>
    /\ slots[i].pc = "done"

\* The result is a non-empty list whose first row is an object with a key.
TableShaped(data) ==
    /\ data.kind = "rows"
    /\ data.rows # <<>>
    /\ data.rows[1].kind = "object"
    /\ data.rows[1].entries # <<>>

\* The cells of a line `| a | b |`, read back from its parts.
CellsOf(line) == [k \in 1 .. ((Len(line) - 1) \div 2) |-> line[2 * k]]

\* The text a row has under a header: empty when the row has no such
\* value or a null one.
ExpectedCell(row, header) ==
    IF \E k \in DOMAIN row.entries :
           row.entries[k].key = header /\ row.entries[k].cell.kind # "null"
    THEN LET k == CHOOSE k \in DOMAIN row.entries : row.entries[k].key = header
         IN  row.entries[k].cell.text
    ELSE ""

IsTableOf(text, rows) ==
    LET headers == [h \in DOMAIN rows[1].entries |-> rows[1].entries[h].key]
    IN  /\ Len(text.lines) = 2 + Len(rows)
        /\ CellsOf(text.lines[1]) = headers
        /\ CellsOf(text.lines[2]) = [h \in DOMAIN headers |-> "---"]
        /\ \A r \in DOMAIN rows :
               CellsOf(text.lines[2 + r]) =
                   [h \in DOMAIN headers |-> ExpectedCell(rows[r], headers[h])]

\* C23: a failed query is an error response whatever the format, a
\* successful one without format "markdown" is the plain rendering of the
\* data, and with format "markdown" a result that is a non-empty list of
\* rows whose first row is an object with a key is answered with a header
\* line of that row's keys, a separator line and one line per row in
\* order, each with one cell per header, empty for a missing or null value.
C23_MarkdownTable ==
    \A i \in Slots :
        SqlEnded(i) =>
            IF ~slots[i].reply.success
            THEN /\ slots[i].response.ok
                 /\ slots[i].response.val.isError
                 /\ slots[i].response.val.text.lines = << <<"Error: ">> \o slots[i].reply.error >>
            ELSE IF slots[i].request.arguments.format # "markdown"
            THEN /\ slots[i].response.ok
                 /\ slots[i].response.val.text = Text(<<>>, <<Json(slots[i].reply.data, 2)>>)
            ELSE TableShaped(slots[i].reply.data) =>
                     /\ slots[i].response.ok
                     /\ ~slots[i].response.val.isError
                     /\ IsTableOf(slots[i].response.val.text, slots[i].reply.data.rows)

\* A markdown query whose second row is null: the call raised instead of
\* answering with a table.
C23_Witness ==
    \E i \in Slots :
        /\ SqlEnded(i)
        /\ slots[i].request.arguments.format = "markdown"
        /\ slots[i].reply.success
        /\ TableShaped(slots[i].reply.data)
        /\ slots[i].reply.data.rows[2].kind = "null"
        /\ ~slots[i].response.ok
        /\ slots[i].response.val = "TypeError"

ResourceInvoked(i) == slots[i].request.kind = "readResource" /\ slots[i].pc # "idle"

\* The database a resource request resolves to ("" when to none) and the
\* first segment of its path that is not empty.
ResourceDatabase(i) ==
    IF slots[i].request.uri.hostname # "" THEN slots[i].request.uri.hostname
    ELSE config.defaultDatabase

FirstSegment(uri) ==
    LET named == {k \in DOMAIN uri.segments : uri.segments[k] # ""}
    IN  IF named = {} THEN Undefined
        ELSE uri.segments[CHOOSE k \in named : \A l \in named : k <= l]

\* Invocation i fetched with `call` and, once the fetch is back, answered
\* with the result's text, or with `Error: <error>` as text.
FetchedAndRelayed(i, call) ==
    /\ slots[i].calls = <<call>>
    /\ slots[i].pc = "done" =>
           /\ slots[i].response.ok
           /\ slots[i].response.val.uri = slots[i].request.name
           /\ slots[i].response.val.text =
                  IF ~slots[i].reply.success
                  THEN Text(<< <<"Error: ">> \o slots[i].reply.error >>, <<>>)
                  ELSE IF slots[i].reply.data.kind = "string" THEN slots[i].reply.data.text
                  ELSE Text(<<>>, <<Json(slots[i].reply.data, 0)>>)

RaisedInvalidRequest(i) ==
    /\ slots[i].calls = <<>>
    /\ slots[i].pc = "done"
    /\ ~slots[i].response.ok
    /\ slots[i].response.val = "InvalidRequest"

DispatchedOnFirstSegment(i) ==
    IF ResourceDatabase(i) # "" /\ FirstSegment(slots[i].request.uri) = "logs"
    THEN FetchedAndRelayed(i, Call("getLogs", ResourceDatabase(i), <<"100">>, ""))
    ELSE IF ResourceDatabase(i) # "" /\ FirstSegment(slots[i].request.uri) = "schema"
    THEN FetchedAndRelayed(i, Call("getSchema", ResourceDatabase(i), <<>>, ""))
    ELSE RaisedInvalidRequest(i)

\* C24 as stated: every readResource request with a resolvable database
\* and first path segment logs or schema fetches the logs (100 lines) or
\* the schema and answers with the result's text or `Error: <error>`;
\* every other request raises an invalid-request error and starts no call.
C24_ResourceDispatch ==
    \A i \in Slots : ResourceInvoked(i) => DispatchedOnFirstSegment(i)

\* C24, amended: the above holds for a URI that new URL accepts; a text it
\* rejects makes readResource raise the TypeError of new URL, not an
\* invalid-request error, before any call is started.
C24_ParsedResourceDispatch ==
    \A i \in Slots :
        ResourceInvoked(i) =>
            IF slots[i].request.uri.valid THEN DispatchedOnFirstSegment(i)
            ELSE /\ slots[i].calls = <<>>
                 /\ slots[i].pc = "done"
                 /\ ~slots[i].response.ok
                 /\ slots[i].response.val = "TypeError"

\* spacetimedb://resdb/schema/extra fetched the schema of resdb, the fetch
\* failed and the answer is the error as text.
C24_Witness ==
    \E i \in Slots :
        /\ ResourceInvoked(i)
        /\ slots[i].request.uri.segments = <<"", "schema", "extra">>
        /\ slots[i].calls = <<Call("getSchema", "resdb", <<>>, "")>>
        /\ slots[i].pc = "done"
        /\ ~slots[i].reply.success
        /\ slots[i].response.ok

\* Invocation i of callTool called a method of the client and has ended.
ClientBackedEnded(i) ==
    /\ slots[i].request.kind = "callTool"
    /\ slots[i].calls # <<>>
    /\ slots[i].calls[1].method # "runPublishCommand"
    /\ slots[i].pc = "done"

\* The response carries the client's result as it is: the data itself or
\* its pretty-printed JSON without isError, or `Error: <error>` with it.
RelaysResult(i) ==
    /\ slots[i].response.ok
    /\ slots[i].response.val.isError <=> ~slots[i].reply.success
    /\ slots[i].response.val.text =
           IF ~slots[i].reply.success
           THEN Text(<< <<"Error: ">> \o slots[i].reply.error >>, <<>>)
           ELSE IF slots[i].reply.data.kind = "string" THEN slots[i].reply.data.text
           ELSE Text(<<>>, <<Json(slots[i].reply.data, 2)>>)

MarkdownRendered(i) ==
    /\ slots[i].request.name = "sql_query"
    /\ slots[i].request.arguments.format = "markdown"
    /\ slots[i].reply.success

\* C28 as stated: for every client-backed tool the response has isError
\* exactly when the client's result has success false; a success carries
\* the data as text when it is a string and its pretty-printed JSON
\* otherwise, a failure carries `Error: ` and the error.
C28_UniformRelay ==
    \A i \in Slots : ClientBackedEnded(i) => RelaysResult(i)

\* C28, amended: the above holds for every client-backed invocation but a
\* successful sql_query with format "markdown"; that one carries the
\* markdown rendering of the data instead, without isError, and raises
\* when the rendering raises.
C28_RelayBesidesMarkdown ==
    \A i \in Slots :
        ClientBackedEnded(i) =>
            IF MarkdownRendered(i)
            THEN IF formatSqlMarkdown(slots[i].reply.data).ok
                 THEN /\ slots[i].response.ok
                      /\ ~slots[i].response.val.isError
                      /\ slots[i].response.val.text = formatSqlMarkdown(slots[i].reply.data).val
                 ELSE ~slots[i].response.ok
            ELSE RelaysResult(i)

\* A successful markdown query was answered with a table and not with the
\* JSON of its rows.
C28_Witness ==
    \E i \in Slots :
        /\ ClientBackedEnded(i)
        /\ MarkdownRendered(i)
        /\ slots[i].response.ok
        /\ ~slots[i].response.val.isError
        /\ slots[i].response.val.text.raw = <<>>
        /\ Len(slots[i].response.val.text.lines) = 4
        /\ slots[i].response.val.text.lines[1] = <<"| ", "id", " | ", "name", " |">>

\* The request of invocation i names a listed tool and gives a non-empty
\* value for every parameter the tool's required list names under the
\* configuration in force.
SuppliesRequired(i) ==
    /\ DeclaredTools(i) # {}
    /\ \A k \in DeclaredTools(i) :
           \A p \in DOMAIN listTools(config.defaultDatabase)[k].required :
               slots[i].request.arguments[listTools(config.defaultDatabase)[k].required[p]]
                   \notin {Undefined, ""}

\* C29, as stated: a callTool request that supplies every parameter its
\* tool requires is never refused for a missing parameter or a missing
\* database: its operation is started.
C29_CompleteRequestServed ==
    \A i \in Slots :
        (ToolInvoked(i) /\ SuppliesRequired(i)) =>
            /\ ~RefusedUnstarted(i)
            /\ slots[i].calls # <<>>

\* list_databases with its identity, on a server without a default
\* database: refused for the database the tool does not declare.
C29_Witness ==
    \E i \in Slots :
        /\ ToolInvoked(i)
        /\ config.defaultDatabase = ""
        /\ slots[i].request.name = "list_databases"
        /\ slots[i].request.arguments.identity = "0xabc"
        /\ slots[i].request.arguments.database = Undefined
        /\ SuppliesRequired(i)
        /\ RefusedUnstarted(i)
        /\ slots[i].response.val.text.lines
               = << <<"Error: No database specified and no default configured.">> >>

\* The request of invocation i resolves to a database: its own, or the
\* configured default.
DatabaseResolvable(i) == RequestDatabase(i) # "" \/ config.defaultDatabase # ""

RaisedToolNotFound(i) ==
    /\ slots[i].pc = "done"
    /\ ~slots[i].response.ok
    /\ slots[i].response.val = "MethodNotFound"

\* C30, as stated: with a database resolvable, a callTool request for a
\* name listTools returns ends with a response and never with the `Tool
\* not found` error, and a request for any other name raises
\* MethodNotFound and starts no remote call and no subprocess.
C30_DispatchMatchesList ==
    \A i \in Slots :
        (ToolInvoked(i) /\ DatabaseResolvable(i)) =>
            IF DeclaredTools(i) # {}
            THEN /\ ~RaisedToolNotFound(i)
                 /\ slots[i].pc = "done" => slots[i].response.ok
            ELSE /\ RaisedToolNotFound(i)
                 /\ slots[i].response.err = <<"Tool not found: ", slots[i].request.name>>
                 /\ slots[i].calls = <<>>

\* The listed tool sql_query, with a database, ended with a raised
\* TypeError and no response.
C30_Witness ==
    \E i \in Slots :
        /\ ToolInvoked(i)
        /\ DatabaseResolvable(i)
        /\ DeclaredTools(i) # {}
        /\ slots[i].request.name = "sql_query"
        /\ slots[i].pc = "done"
        /\ ~slots[i].response.ok
        /\ ~RaisedToolNotFound(i)

====
